---- MODULE Spec2Model ----
(***************************************************************************)
(* A model of testkeeper-ai: the OpenAPI structural diff                   *)
(* (src/utils/openapi-diff.js) and the relevance ranking of test files     *)
(* (src/scripts/suggest-updates.js).                                       *)
(*                                                                         *)
(* JavaScript strings whose characters the code inspects (paths, file      *)
(* names, file contents) are sequences of one-character strings; strings   *)
(* that are only compared (method names, property names, response codes)   *)
(* are TLA+ strings.                                                       *)
(***************************************************************************)
EXTENDS Integers, Sequences, FiniteSets, TLC

VARIABLES
    \* diffOpenAPISpecs
    oldSpecStr,     \* argument: the old document, as text
    newSpecStr,     \* argument: the new document, as text
    oldSpec,        \* const oldSpec (openapi-diff.js:6)
    newSpec,        \* const newSpec (openapi-diff.js:7)
    changes,        \* const changes (openapi-diff.js:9)
    idx,            \* position of the running for-in loop over paths
    threw,          \* whether an exception reached the catch clause
    ret,            \* the value diffOpenAPISpecs returned
    pc,             \* the statement diffOpenAPISpecs is at
    \* findRelevantTestFiles
    allTestFiles,   \* argument: the first files of the corpus, in enumeration order
    padFiles,       \* argument: how many further files follow them in the corpus
    fsys,           \* the file system: what reading each of the first files gives
    diff,           \* argument: {file, changes}
    changedEndpoints,   \* const changedEndpoints (suggest-updates.js:107)
    relevantFiles,  \* const relevantFiles (suggest-updates.js:116)
    endpointMatches,    \* const endpointMatches (suggest-updates.js:117)
    fileIdx,        \* position of the loop over allTestFiles
    warned,         \* the files whose read failed (console.warn, line 146)
    rankRet,        \* the value findRelevantTestFiles returned
    rankPc,         \* the statement findRelevantTestFiles is at
    readCalls,      \* how many times findRelevantTestFiles has called fs.readFileSync
    rankRetRef,     \* the array that was returned: a new one, or allTestFiles itself
    \* suggestUpdates
    invocation,     \* the turn of `for (const diff of apiDiffs)` that is running
    testFiles0,     \* history: testFiles as it was when the loop began
    firstCall,      \* history: the diff of the first turn, what findRelevantTestFiles
                    \* returned for it, and what readTestFiles sorted that into
    \* readTestFiles
    testFiles,      \* the array readTestFiles is given, which it sorts in place
    docs,           \* the file system: what reading each file gives, as lines
    matchCount,     \* the caller's endpointMatches: the number of endpoints a file matched
    fileContents,   \* const fileContents (suggest-updates.js:288)
    totalTokens,    \* let totalTokens (suggest-updates.js:289)
    readIdx,        \* position of the loop over sortedFiles
    readPc,         \* the statement readTestFiles is at
    \* run (the detector)
    changedFiles,   \* the argument of run
    revisions,      \* git: what reading each file at HEAD~1 and now gives
    diffs,          \* const diffs (part_002:5)
    processed,      \* what was logged for each file, in order
    detPc,          \* the statement run is at
    \* suggestUpdates, with the calls it awaits as single steps
    apiDiffs,       \* the argument of suggestUpdates
    listing,        \* what getTestFilesFromRepo does: the files it returns, or a throw
    generation,     \* what the generation call does for each diff, in order
    suggestions,    \* const suggestions (suggest-updates.js:9)
    sugIdx,         \* position of the loop over apiDiffs
    prompted,       \* whether the prompt of the current turn has been built
    sugPc,          \* the statement suggestUpdates is at
    \* createDraftPR
    generatedTests, \* argument: how many generated tests each suggestion has
    applied,        \* the calls of applyTestChanges so far, and how each ended
    modifiedFiles,  \* const modifiedFiles (create-draft-pr.js:33)
    failed,         \* the steps that have thrown, in order
    removals,       \* the calls of fs.rmSync on the clone, and whether each succeeded
    thrown,         \* the error createDraftPR has thrown to its caller
    prSug,          \* position of the loop over suggestions
    prTest,         \* position of the loop over suggestion.generatedTests
    prPc,           \* the statement createDraftPR is at
    \* the entry point
    config,         \* const config (part_001:205), with test_repo and model set
    env,            \* process.env
    repo,           \* the working directory: whether it is a git repository, and
                    \* the files git reports as changed
    relevant,       \* const changedFiles (part_001:221)
    found,          \* diffs.length (part_001:238)
    suggested,      \* suggestions.length (part_001:253)
    stages,         \* the stages that have been entered, in order
    exitCode,       \* the code process.exit was called with
    mainPc          \* the statement of the entry point that runs next

diffVars == <<oldSpecStr, newSpecStr, oldSpec, newSpec, changes, idx, threw, ret, pc>>

rankVars == <<allTestFiles, padFiles, fsys, diff, changedEndpoints, relevantFiles,
              endpointMatches, fileIdx, warned, rankRet, rankPc, readCalls, rankRetRef>>

runVars == <<invocation, testFiles0, firstCall>>

readVars == <<testFiles, docs, matchCount, fileContents, totalTokens, readIdx, readPc>>

\* The variables of the functions after the ranking.
detVars == <<changedFiles, revisions, diffs, processed, detPc>>

sugVars == <<apiDiffs, listing, generation, suggestions, sugIdx, prompted, sugPc>>

prVars == <<generatedTests, applied, modifiedFiles, failed, removals, thrown, prSug, prTest,
            prPc>>

mainVars == <<config, env, repo, relevant, found, suggested, stages, exitCode, mainPc>>

tailVars == <<prVars, mainVars>>

restVars == <<readVars, detVars, sugVars, tailVars>>

vars == <<diffVars, rankVars, runVars, restVars>>

-----------------------------------------------------------------------------
(* JavaScript values, as JSON.parse and yaml.load produce them.            *)

Undefined == [t |-> "undefined"]
Null == [t |-> "null"]
Num == [t |-> "number"]
JSTrue == [t |-> "boolean", b |-> TRUE]
JSFalse == [t |-> "boolean", b |-> FALSE]
Str(s) == [t |-> "string", s |-> s]
Arr(a) == [t |-> "array", a |-> a]
\* An object: its own properties in insertion order, e[i] = [k |-> key, v |-> value].
Obj(e) == [t |-> "object", e |-> e]
Prop(k, v) == [k |-> k, v |-> v]

Nullish(v) == v.t \in {"undefined", "null"}

\* ToBoolean, as `!x` and `x || y` apply it.
Truthy(v) ==
    /\ ~Nullish(v)
    /\ (v.t = "boolean" => v.b)
    /\ (v.t = "string" => v.s # "")

\* x || d
OrDefault(v, d) == IF Truthy(v) THEN v ELSE d

RECURSIVE Lookup(_, _)
Lookup(e, key) ==
    IF e = <<>> THEN Undefined
    ELSE IF Head(e).k = key THEN Head(e).v
    ELSE Lookup(Tail(e), key)

\* v[key] for a v that is not null or undefined (a primitive has no own property).
Get(v, key) == IF v.t = "object" THEN Lookup(v.e, key) ELSE Undefined

\* The numeric value of a property name that is an array index, -1 otherwise.
ArrayIndex(k) ==
    CASE k = "200" -> 200
      [] k = "404" -> 404
      [] OTHER -> -1

RECURSIVE InsertIndexKey(_, _)
InsertIndexKey(k, ks) ==
    IF ks = <<>> THEN <<k>>
    ELSE IF ArrayIndex(Head(ks)) = -1 \/ ArrayIndex(k) < ArrayIndex(Head(ks))
         THEN <<k>> \o ks
         ELSE <<Head(ks)>> \o InsertIndexKey(k, Tail(ks))

RECURSIVE OrderKeys(_)
\* OrdinaryOwnPropertyKeys: array-index names ascending, then the others as inserted.
OrderKeys(ks) ==
    IF ks = <<>> THEN <<>>
    ELSE LET rest == OrderKeys(Tail(ks))
         IN  IF ArrayIndex(Head(ks)) # -1 THEN InsertIndexKey(Head(ks), rest)
             ELSE LET n == Cardinality({i \in 1..Len(rest) : ArrayIndex(rest[i]) # -1})
                  IN  SubSeq(rest, 1, n) \o <<Head(ks)>> \o SubSeq(rest, n + 1, Len(rest))

\* The keys `for (k in v)` visits; none for null, undefined and numbers.
\* Path and method names are never array indices: they are visited as inserted.
ForIn(v) == IF v.t = "object" THEN [i \in 1..Len(v.e) |-> v.e[i].k] ELSE <<>>

\* The keys `for (code in responses)` visits.
ForInCodes(v) == OrderKeys(ForIn(v))

\* The outcome of a call: a value, or an exception (with the changes pushed so far).
Ok(v) == [ok |-> TRUE, v |-> v]
Throw(partial) == [ok |-> FALSE, v |-> partial]

-----------------------------------------------------------------------------
(* JavaScript strings as sequences of characters.                          *)

UpperCase ==
    <<"A", "B", "C", "D", "E", "F", "G", "H", "I", "J", "K", "L", "M",
      "N", "O", "P", "Q", "R", "S", "T", "U", "V", "W", "X", "Y", "Z">>
LowerCase ==
    <<"a", "b", "c", "d", "e", "f", "g", "h", "i", "j", "k", "l", "m",
      "n", "o", "p", "q", "r", "s", "t", "u", "v", "w", "x", "y", "z">>

LowerChar(c) ==
    IF \E i \in 1..Len(UpperCase) : UpperCase[i] = c
    THEN LowerCase[CHOOSE i \in 1..Len(UpperCase) : UpperCase[i] = c]
    ELSE c

\* String.prototype.toLowerCase
ToLowerCase(str) == [i \in 1..Len(str) |-> LowerChar(str[i])]

\* Whether pat occurs in str at (1-based) position i.
MatchAt(str, pat, i) ==
    /\ i >= 1
    /\ i + Len(pat) - 1 <= Len(str)
    /\ \A j \in 1..Len(pat) : str[i + j - 1] = pat[j]

\* String.prototype.includes
Includes(str, pat) == \E i \in 1..(Len(str) - Len(pat) + 1) : MatchAt(str, pat, i)

\* String.prototype.startsWith and endsWith
StartsWith(str, pat) == MatchAt(str, pat, 1)
EndsWith(str, pat) == MatchAt(str, pat, Len(str) - Len(pat) + 1)

\* str.slice(from) with 0-based from, as a 1-based subsequence.
Drop(str, n) == SubSeq(str, n + 1, Len(str))

RECURSIVE SplitFrom(_, _, _)
\* The pieces of str between occurrences of the character sep, cur being the
\* piece under construction.
SplitFrom(str, sep, cur) ==
    IF str = <<>> THEN <<cur>>
    ELSE IF Head(str) = sep THEN <<cur>> \o SplitFrom(Tail(str), sep, <<>>)
    ELSE SplitFrom(Tail(str), sep, Append(cur, Head(str)))

\* str.split(sep), for a one-character sep.
Split(str, sep) == SplitFrom(str, sep, <<>>)

RECURSIVE Filter(_, _)
\* Array.prototype.filter: Filter(a, keep) with keep the set of kept elements.
Filter(a, keep) ==
    IF a = <<>> THEN <<>>
    ELSE (IF Head(a) \in keep THEN <<Head(a)>> ELSE <<>>) \o Filter(Tail(a), keep)

\* a.filter(Boolean), for an array of strings: the empty string is falsy.
FilterBoolean(a) == Filter(a, {a[i] : i \in 1..Len(a)} \ {<<>>})

RECURSIVE Join(_, _)
\* Array.prototype.join
Join(a, sep) ==
    IF a = <<>> THEN <<>>
    ELSE IF Len(a) = 1 THEN Head(a)
    ELSE Head(a) \o sep \o Join(Tail(a), sep)

\* Array.prototype.slice(from, to), 0-based and clipped to the array.
Slice(a, from, to) ==
    SubSeq(a, from + 1, IF to < Len(a) THEN to ELSE Len(a))

RECURSIVE Dedupe(_)
\* Array.from(new Set(a)): the first occurrence of each element, in order.
Dedupe(a) ==
    IF a = <<>> THEN <<>>
    ELSE LET init == Dedupe(SubSeq(a, 1, Len(a) - 1))
             last == a[Len(a)]
         IN  IF \E i \in 1..Len(init) : init[i] = last THEN init ELSE Append(init, last)

Min(a, b) == IF a < b THEN a ELSE b
Max(a, b) == IF a > b THEN a ELSE b

\* The characters of a string literal of the source or of a document.
Chars(str) ==
    CASE str = "type" -> <<"t", "y", "p", "e">>
      [] str = "parameter" -> <<"p", "a", "r", "a", "m", "e", "t", "e", "r">>
      [] str = "location" -> <<"l", "o", "c", "a", "t", "i", "o", "n">>
      [] str = "from" -> <<"f", "r", "o", "m">>
      [] str = "to" -> <<"t", "o">>
      [] str = "code" -> <<"c", "o", "d", "e">>
      [] str = "details" -> <<"d", "e", "t", "a", "i", "l", "s">>
      [] str = "new_parameter" -> <<"n", "e", "w", "_", "p", "a", "r", "a", "m", "e", "t", "e", "r">>
      [] str = "removed_parameter" -> <<"r", "e", "m", "o", "v", "e", "d", "_", "p", "a", "r", "a", "m", "e", "t", "e", "r">>
      [] str = "parameter_requirement_changed" -> <<"p", "a", "r", "a", "m", "e", "t", "e", "r", "_", "r", "e", "q", "u", "i", "r", "e", "m", "e", "n", "t", "_", "c", "h", "a", "n", "g", "e", "d">>
      [] str = "new_response_code" -> <<"n", "e", "w", "_", "r", "e", "s", "p", "o", "n", "s", "e", "_", "c", "o", "d", "e">>
      [] str = "removed_response_code" -> <<"r", "e", "m", "o", "v", "e", "d", "_", "r", "e", "s", "p", "o", "n", "s", "e", "_", "c", "o", "d", "e">>
      [] str = "expand" -> <<"e", "x", "p", "a", "n", "d">>
      [] str = "id" -> <<"i", "d">>
      [] str = "query" -> <<"q", "u", "e", "r", "y">>
      [] str = "header" -> <<"h", "e", "a", "d", "e", "r">>
      [] str = "200" -> <<"2", "0", "0">>
      [] str = "404" -> <<"4", "0", "4">>
      [] str = "default" -> <<"d", "e", "f", "a", "u", "l", "t">>
      [] str = "true" -> <<"t", "r", "u", "e">>
      [] str = "false" -> <<"f", "a", "l", "s", "e">>
      [] str = "operationId" -> <<"o", "p", "e", "r", "a", "t", "i", "o", "n", "I", "d">>
      [] str = "get" -> <<"g", "e", "t">>
      [] str = "post" -> <<"p", "o", "s", "t">>
      [] str = "put" -> <<"p", "u", "t">>
      [] str = "delete" -> <<"d", "e", "l", "e", "t", "e">>
      [] str = "patch" -> <<"p", "a", "t", "c", "h">>
      [] str = "head" -> <<"h", "e", "a", "d">>
      [] str = "options" -> <<"o", "p", "t", "i", "o", "n", "s">>
      [] str = "/paths" -> <<"/", "p", "a", "t", "h", "s">>
      [] str = "api" -> <<"a", "p", "i">>
      [] str = "endpoint" -> <<"e", "n", "d", "p", "o", "i", "n", "t">>
      [] str = "integration" -> <<"i", "n", "t", "e", "g", "r", "a", "t", "i", "o", "n">>
      [] str = "service" -> <<"s", "e", "r", "v", "i", "c", "e">>
      [] str = "/api" -> <<"/", "a", "p", "i">>
      [] str = "/v1" -> <<"/", "v", "1">>
      [] str = "/v2" -> <<"/", "v", "2">>
      [] str = "/api/items" -> <<"/", "a", "p", "i", "/", "i", "t", "e", "m", "s">>
      [] str = "/v1/users" -> <<"/", "v", "1", "/", "u", "s", "e", "r", "s">>
      [] str = "getUserById" -> <<"g", "e", "t", "U", "s", "e", "r", "B", "y", "I", "d">>

-----------------------------------------------------------------------------
(* src/utils/openapi-diff.js                                               *)

\* A document as text: the encoding that reads it, and the value it denotes.
Json(v) == [enc |-> "json", value |-> v]
Yaml(v) == [enc |-> "yaml", value |-> v]
Garbage == [enc |-> "garbage", value |-> Undefined]

\* JSON.parse first; when it throws, yaml.load; when both throw, an Error.
parseSpec(specStr) ==
    IF specStr.enc = "json" THEN Ok(specStr.value)
    ELSE IF specStr.enc = "yaml" THEN Ok(specStr.value)
    ELSE Throw(<<>>)

RECURSIVE FindParamByName(_, _)
\* Mutant of FindParam: parameters matched by name alone.
FindParamByName(params, q) ==
    IF params = <<>> THEN Undefined
    ELSE IF Get(Head(params), "name") = Get(q, "name") THEN Head(params)
    ELSE FindParamByName(Tail(params), q)

RECURSIVE FindParam(_, _)
\* params.find(p => p.name === q.name && p.in === q.in)
FindParam(params, q) ==
    IF params = <<>> THEN Undefined
    ELSE IF /\ Get(Head(params), "name") = Get(q, "name")
            /\ Get(Head(params), "in") = Get(q, "in")
         THEN Head(params)
         ELSE FindParam(Tail(params), q)

\* oldParam.required !== newParam.required
RequiredDiffers(oldParam, newParam) ==
    Get(oldParam, "required") # Get(newParam, "required")

\* Mutant of RequirementChanged: `from` read from the new parameter.
RequirementChangedFromNew(oldParam, newParam) ==
    [type |-> "parameter_requirement_changed",
     parameter |-> Get(newParam, "name"),
     location |-> Get(newParam, "in"),
     from |-> OrDefault(Get(newParam, "required"), JSFalse),
     to |-> OrDefault(Get(newParam, "required"), JSFalse)]

\* The delta pushed when the parameter is in both lists.
RequirementChanged(oldParam, newParam) ==
    [type |-> "parameter_requirement_changed",
     parameter |-> Get(newParam, "name"),
     location |-> Get(newParam, "in"),
     from |-> OrDefault(Get(oldParam, "required"), JSFalse),
     to |-> OrDefault(Get(newParam, "required"), JSFalse)]

NewParameter(newParam) ==
    [type |-> "new_parameter",
     parameter |-> Get(newParam, "name"),
     location |-> Get(newParam, "in")]

RemovedParameter(oldParam) ==
    [type |-> "removed_parameter",
     parameter |-> Get(oldParam, "name"),
     location |-> Get(oldParam, "in")]

RECURSIVE NewParamPass(_, _)
\* newParams.forEach(...)
NewParamPass(oldA, newA) ==
    IF newA = <<>> THEN <<>>
    ELSE LET newParam == Head(newA)
             oldParam == FindParam(oldA, newParam)
             pushed == IF ~Truthy(oldParam) THEN <<NewParameter(newParam)>>
                       ELSE IF RequiredDiffers(oldParam, newParam)
                            THEN <<RequirementChanged(oldParam, newParam)>>
                            ELSE <<>>
         IN  pushed \o NewParamPass(oldA, Tail(newA))

RECURSIVE RemovedParamPass(_, _)
\* oldParams.forEach(...)
RemovedParamPass(oldA, newA) ==
    IF oldA = <<>> THEN <<>>
    ELSE LET oldParam == Head(oldA)
             newParam == FindParam(newA, oldParam)
             pushed == IF ~Truthy(newParam) THEN <<RemovedParameter(oldParam)>>
                       ELSE <<>>
         IN  pushed \o RemovedParamPass(Tail(oldA), newA)

\* forEach and find exist on arrays only: on anything else the call throws.
compareParameters(oldParams, newParams) ==
    IF newParams.t # "array" \/ oldParams.t # "array" THEN Throw(<<>>)
    ELSE Ok(NewParamPass(oldParams.a, newParams.a)
            \o RemovedParamPass(oldParams.a, newParams.a))

\* !other[code]
CodeMissing(other, code) == ~Truthy(Get(other, code))

RECURSIVE CodePass(_, _, _)
CodePass(codes, other, type) ==
    IF codes = <<>> THEN <<>>
    ELSE (IF CodeMissing(other, Head(codes))
          THEN <<[type |-> type, code |-> Head(codes)]>> ELSE <<>>)
         \o CodePass(Tail(codes), other, type)

compareResponses(oldResponses, newResponses) ==
    CodePass(ForInCodes(newResponses), oldResponses, "new_response_code")
    \o CodePass(ForInCodes(oldResponses), newResponses, "removed_response_code")

\* Mutant of PathMissing: the path itself is not looked up.
PathMissingNoLookup(spec, path) == ~Truthy(Get(spec, "paths"))

\* !spec.paths || !spec.paths[path], for a spec that is not null or undefined
PathMissing(spec, path) ==
    \/ ~Truthy(Get(spec, "paths"))
    \/ ~Truthy(Get(Get(spec, "paths"), path))

\* !item[method]
MethodMissing(item, method) == ~Truthy(Get(item, method))

\* Mutant of MethodStep: the records are pushed whether their details are empty
\* or not.
MethodStepAlways(oldItem, newItem, path, method, acc) ==
    IF MethodMissing(oldItem, method)
    THEN Ok(Append(acc, [type |-> "new_method", path |-> path, method |-> method]))
    ELSE LET oldOp == Get(oldItem, method)
             newOp == Get(newItem, method)
         IN  IF Nullish(newOp) THEN Throw(acc)
             ELSE LET oldParams == OrDefault(Get(oldOp, "parameters"), Arr(<<>>))
                      newParams == OrDefault(Get(newOp, "parameters"), Arr(<<>>))
                      paramChanges == compareParameters(oldParams, newParams)
                  IN  IF ~paramChanges.ok THEN Throw(acc)
                      ELSE LET acc1 == IF Len(paramChanges.v) >= 0
                                       THEN Append(acc, [type |-> "parameter_changes",
                                                         path |-> path,
                                                         method |-> method,
                                                         details |-> paramChanges.v])
                                       ELSE acc
                               oldResponses == OrDefault(Get(oldOp, "responses"), Obj(<<>>))
                               newResponses == OrDefault(Get(newOp, "responses"), Obj(<<>>))
                               responseChanges == compareResponses(oldResponses, newResponses)
                           IN  Ok(IF Len(responseChanges) >= 0
                                  THEN Append(acc1, [type |-> "response_changes",
                                                     path |-> path,
                                                     method |-> method,
                                                     details |-> responseChanges])
                                  ELSE acc1)

\* The body of the loop over the methods of a path both specs have (lines 18-38).
MethodStep(oldItem, newItem, path, method, acc) ==
    IF MethodMissing(oldItem, method)
    THEN Ok(Append(acc, [type |-> "new_method", path |-> path, method |-> method]))
    ELSE LET oldOp == Get(oldItem, method)
             newOp == Get(newItem, method)
         IN  IF Nullish(newOp) THEN Throw(acc)
             ELSE LET oldParams == OrDefault(Get(oldOp, "parameters"), Arr(<<>>))
                      newParams == OrDefault(Get(newOp, "parameters"), Arr(<<>>))
                      paramChanges == compareParameters(oldParams, newParams)
                  IN  IF ~paramChanges.ok THEN Throw(acc)
                      ELSE LET acc1 == IF Len(paramChanges.v) > 0
                                       THEN Append(acc, [type |-> "parameter_changes",
                                                         path |-> path,
                                                         method |-> method,
                                                         details |-> paramChanges.v])
                                       ELSE acc
                               oldResponses == OrDefault(Get(oldOp, "responses"), Obj(<<>>))
                               newResponses == OrDefault(Get(newOp, "responses"), Obj(<<>>))
                               responseChanges == compareResponses(oldResponses, newResponses)
                           IN  Ok(IF Len(responseChanges) > 0
                                  THEN Append(acc1, [type |-> "response_changes",
                                                     path |-> path,
                                                     method |-> method,
                                                     details |-> responseChanges])
                                  ELSE acc1)

RECURSIVE MethodLoop(_, _, _, _, _)
\* for (const method in newSpec.paths[path]) { ... }
MethodLoop(oldItem, newItem, path, methods, acc) ==
    IF methods = <<>> THEN Ok(acc)
    ELSE LET r == MethodStep(oldItem, newItem, path, Head(methods), acc)
         IN  IF r.ok THEN MethodLoop(oldItem, newItem, path, Tail(methods), r.v)
             ELSE r

\* The body of the loop over the paths of the new spec (lines 13-40).
ForwardPath(oldS, newS, path, acc) ==
    IF Nullish(oldS) THEN Throw(acc)
    ELSE IF PathMissing(oldS, path)
         THEN Ok(Append(acc, [type |-> "new_endpoint", path |-> path]))
         ELSE LET oldItem == Get(Get(oldS, "paths"), path)
                  newItem == Get(Get(newS, "paths"), path)
              IN  MethodLoop(oldItem, newItem, path, ForIn(newItem), acc)

RECURSIVE RemovedMethodLoop(_, _, _, _)
\* for (const method in oldSpec.paths[path]) { ... } (lines 49-53)
RemovedMethodLoop(newItem, path, methods, acc) ==
    IF methods = <<>> THEN acc
    ELSE RemovedMethodLoop(newItem, path, Tail(methods),
            IF MethodMissing(newItem, Head(methods))
            THEN Append(acc, [type |-> "removed_method", path |-> path,
                              method |-> Head(methods)])
            ELSE acc)

\* Mutant of BackwardPath: the methods of a path both specs have are not visited.
BackwardPathEndpointsOnly(oldS, newS, path, acc) ==
    IF Nullish(newS) THEN Throw(acc)
    ELSE IF PathMissing(newS, path)
         THEN Ok(Append(acc, [type |-> "removed_endpoint", path |-> path]))
         ELSE Ok(acc)

\* The body of the loop over the paths of the old spec (lines 45-54).
BackwardPath(oldS, newS, path, acc) ==
    IF Nullish(newS) THEN Throw(acc)
    ELSE IF PathMissing(newS, path)
         THEN Ok(Append(acc, [type |-> "removed_endpoint", path |-> path]))
         ELSE LET oldItem == Get(Get(oldS, "paths"), path)
                  newItem == Get(Get(newS, "paths"), path)
              IN  Ok(RemovedMethodLoop(newItem, path, ForIn(oldItem), acc))

\* Mutant of PathKeys: the paths are visited last to first.
PathKeysReversed(spec) ==
    LET ks == ForIn(OrDefault(Get(spec, "paths"), Obj(<<>>)))
    IN  [i \in 1..Len(ks) |-> ks[Len(ks) + 1 - i]]

\* The paths a loop `for (const path in spec.paths || {})` visits.
PathKeys(spec) == ForIn(OrDefault(Get(spec, "paths"), Obj(<<>>)))

\* Mutant of OnError: the changes pushed before the exception are returned.
OnErrorPartial(partial) == partial

\* What the catch clause returns, whatever had been pushed.
OnError(partial) == <<>>

-----------------------------------------------------------------------------
(* The documents diffOpenAPISpecs is run on.                               *)

\* The most operations a spec of StructuralSpecs describes.
MaxOps == 2
\* The most parameters an operation of ParameterSpecs lists.
MaxParams == 2

PUsers == <<"/", "u", "s", "e", "r", "s">>
POrders == <<"/", "o", "r", "d", "e", "r", "s">>
PathNames == {PUsers, POrders}
MethodNames == {"get", "post"}
CodeNames == {"200", "404", "default"}

\* A Parameter Object; `required` may be left out.
Param(name, in, required) ==
    Obj(<<Prop("name", Str(name)), Prop("in", Str(in))>>
        \o (IF required.t = "undefined" THEN <<>> ELSE <<Prop("required", required)>>))

ParamValues ==
    {Param("expand", "query", Undefined), Param("expand", "query", JSFalse),
     Param("expand", "query", JSTrue), Param("expand", "header", JSTrue),
     Param("id", "query", JSTrue)}

\* A Responses Object with the given codes, inserted in the given order.
Responses(codes) == Obj([i \in 1..Len(codes) |-> Prop(codes[i], Obj(<<>>))])

\* An Operation Object; either property may be left out (Undefined).
Operation(parameters, responses) ==
    Obj((IF parameters.t = "undefined" THEN <<>> ELSE <<Prop("parameters", parameters)>>)
        \o (IF responses.t = "undefined" THEN <<>> ELSE <<Prop("responses", responses)>>))

\* The sequences over S of length at most n that repeat no element.
SeqsNoDup(S, n) ==
    {q \in UNION {[1..k -> S] : k \in 0..n} :
        \A i, j \in 1..Len(q) : i # j => q[i] # q[j]}

\* The objects with the keys ks, in that order, and values drawn from V.
ObjectsOver(ks, V) == {Obj([i \in 1..Len(ks) |-> Prop(ks[i], f[i])]) : f \in [1..Len(ks) -> V]}

SpecOf(paths) == Obj(<<Prop("paths", paths)>>)

OpPlain == Operation(Arr(<<Param("expand", "query", JSTrue)>>), Responses(<<"200">>))
OpAlt == Operation(Arr(<<Param("expand", "query", JSFalse)>>), Responses(<<"200", "404">>))

PathItems ==
    UNION {ObjectsOver(ms, {OpPlain, OpAlt}) : ms \in SeqsNoDup(MethodNames, Cardinality(MethodNames))}

RECURSIVE SumLen(_)
SumLen(e) == IF e = <<>> THEN 0 ELSE Len(Head(e).v.e) + SumLen(Tail(e))

\* The number of operations a spec describes.
OpCount(spec) == SumLen(Get(spec, "paths").e)

\* Specs that differ in their paths and methods, and in the order of both.
StructuralSpecs ==
    {spec \in {SpecOf(ps) : ps \in UNION {ObjectsOver(pk, PathItems) :
                                          pk \in SeqsNoDup(PathNames, Cardinality(PathNames))}} :
        OpCount(spec) <= MaxOps}

\* A spec with the one operation GET /users.
OneOp(op) == SpecOf(Obj(<<Prop(PUsers, Obj(<<Prop("get", op)>>))>>))

ParamLists == UNION {[1..k -> ParamValues] : k \in 0..MaxParams}

\* Specs that differ in the parameter list of one operation; a list may
\* repeat a (name, in) pair, which OpenAPI forbids.
ParameterSpecs ==
    {OneOp(Operation(Arr(ps), Undefined)) : ps \in ParamLists}
    \cup {OneOp(Operation(Undefined, Undefined))}

\* Specs that differ in the response codes of one operation.
ResponseSpecs ==
    {OneOp(Operation(Undefined, Responses(cs))) : cs \in SeqsNoDup(CodeNames, Cardinality(CodeNames))}

\* `parameters` is an object, not an array.
OpBadParameters == Operation(Obj(<<>>), Responses(<<"200">>))

\* Documents that do not parse, or parse to something that is no spec.
DegenerateDocs ==
    {Garbage, Json(Null), Json(Num), Yaml(Undefined), Json(Obj(<<>>)),
     Yaml(OneOp(OpPlain)),
     Json(OneOp(OpAlt)),
     Json(SpecOf(Obj(<<Prop(POrders, Obj(<<Prop("get", OpPlain)>>)),
                       Prop(PUsers, Obj(<<Prop("get", OpBadParameters)>>))>>))),
     Json(SpecOf(Obj(<<Prop(PUsers, Null), Prop(POrders, Obj(<<Prop("get", Null)>>))>>))),
     Json(SpecOf(Obj(<<Prop(PUsers, Obj(<<Prop("get", OpPlain)>>)),
                       Prop(POrders, Obj(<<Prop("get", OpPlain)>>))>>)))}

DiffInputs ==
    {<<Json(a), Json(b)>> : a, b \in StructuralSpecs}
    \cup {<<Json(a), Json(b)>> : a, b \in ParameterSpecs}
    \cup {<<Json(a), Json(b)>> : a, b \in ResponseSpecs}
    \cup (DegenerateDocs \X DegenerateDocs)

-----------------------------------------------------------------------------
(* diffOpenAPISpecs, statement by statement.                               *)

\* findRelevantTestFiles is not running.
RankIdle ==
    /\ allTestFiles = <<>>
    /\ padFiles = 0
    /\ fsys = <<>>
    /\ diff = [file |-> <<>>, changes |-> <<>>]
    /\ changedEndpoints = <<>>
    /\ relevantFiles = <<>>
    /\ endpointMatches = <<>>
    /\ fileIdx = 0
    /\ warned = {}
    /\ rankRet = <<>>
    /\ rankPc = "idle"
    /\ readCalls = 0
    /\ rankRetRef = "none"

NoCall == [diff |-> [file |-> <<>>, changes |-> <<>>], ret |-> <<>>, sorted |-> <<>>]

\* suggestUpdates is not running.
RunIdle ==
    /\ invocation = 0
    /\ testFiles0 = <<>>
    /\ firstCall = NoCall

\* readTestFiles is not running.
ReadIdle ==
    /\ testFiles = <<>>
    /\ docs = <<>>
    /\ matchCount = <<>>
    /\ fileContents = <<>>
    /\ totalTokens = 0
    /\ readIdx = 0
    /\ readPc = "idle"

\* run is not running.
DetIdle ==
    /\ changedFiles = <<>>
    /\ revisions = <<>>
    /\ diffs = <<>>
    /\ processed = <<>>
    /\ detPc = "idle"

\* suggestUpdates is not running.
SugIdle ==
    /\ apiDiffs = <<>>
    /\ listing = [ok |-> TRUE, files |-> 0]
    /\ generation = <<>>
    /\ suggestions = <<>>
    /\ sugIdx = 0
    /\ prompted = FALSE
    /\ sugPc = "idle"

\* createDraftPR is not running.
PRIdle ==
    /\ generatedTests = <<>>
    /\ applied = <<>>
    /\ modifiedFiles = <<>>
    /\ failed = <<>>
    /\ removals = <<>>
    /\ thrown = "none"
    /\ prSug = 0
    /\ prTest = 0
    /\ prPc = "idle"

\* The entry point is not running.
MainIdle ==
    /\ config = [loaded |-> FALSE]
    /\ env = {}
    /\ repo = [git |-> FALSE, changed |-> <<>>]
    /\ relevant = <<>>
    /\ found = 0
    /\ suggested = 0
    /\ stages = <<>>
    /\ exitCode = -1
    /\ mainPc = "idle"

TailIdle == PRIdle /\ MainIdle

\* None of the functions after the ranking is running.
RestIdle == ReadIdle /\ DetIdle /\ SugIdle /\ TailIdle

\* diffOpenAPISpecs has been called with two documents.
DiffCalled(in) ==
    /\ oldSpecStr = in[1]
    /\ newSpecStr = in[2]
    /\ oldSpec = Undefined
    /\ newSpec = Undefined
    /\ changes = <<>>
    /\ idx = 0
    /\ threw = FALSE
    /\ ret = <<>>
    /\ pc = "parseOld"

Init ==
    /\ \E in \in DiffInputs : DiffCalled(in)
    /\ RankIdle
    /\ RunIdle
    /\ RestIdle

\* const oldSpec = parseSpec(oldSpecStr);
ParseOld ==
    /\ pc = "parseOld"
    /\ LET r == parseSpec(oldSpecStr)
       IN  IF r.ok THEN oldSpec' = r.v /\ pc' = "parseNew"
           ELSE oldSpec' = oldSpec /\ pc' = "catch"
    /\ UNCHANGED <<oldSpecStr, newSpecStr, newSpec, changes, idx, threw, ret>>
    /\ UNCHANGED <<rankVars, runVars, restVars>>

\* const newSpec = parseSpec(newSpecStr); const changes = [];
ParseNew ==
    /\ pc = "parseNew"
    /\ LET r == parseSpec(newSpecStr)
       IN  IF r.ok THEN newSpec' = r.v /\ pc' = "forward" /\ idx' = 1
           ELSE newSpec' = newSpec /\ pc' = "catch" /\ idx' = idx
    /\ UNCHANGED <<oldSpecStr, newSpecStr, oldSpec, changes, threw, ret>>
    /\ UNCHANGED <<rankVars, runVars, restVars>>

\* for (const path in newSpec.paths || {}) { ... }: one iteration, or the exit.
Forward ==
    /\ pc = "forward"
    /\ IF Nullish(newSpec)
       THEN pc' = "catch" /\ UNCHANGED <<changes, idx>>
       ELSE IF idx > Len(PathKeys(newSpec))
            THEN pc' = "backward" /\ idx' = 1 /\ UNCHANGED changes
            ELSE LET r == ForwardPath(oldSpec, newSpec, PathKeys(newSpec)[idx], changes)
                 IN  /\ changes' = r.v
                     /\ IF r.ok THEN pc' = pc /\ idx' = idx + 1
                        ELSE pc' = "catch" /\ idx' = idx
    /\ UNCHANGED <<oldSpecStr, newSpecStr, oldSpec, newSpec, threw, ret>>
    /\ UNCHANGED <<rankVars, runVars, restVars>>

\* for (const path in oldSpec.paths || {}) { ... }: one iteration, or
\* `return changes` after the last.
Backward ==
    /\ pc = "backward"
    /\ IF Nullish(oldSpec)
       THEN pc' = "catch" /\ UNCHANGED <<changes, idx, ret>>
       ELSE IF idx > Len(PathKeys(oldSpec))
            THEN pc' = "done" /\ ret' = changes /\ UNCHANGED <<changes, idx>>
            ELSE LET r == BackwardPath(oldSpec, newSpec, PathKeys(oldSpec)[idx], changes)
                 IN  /\ changes' = r.v
                     /\ ret' = ret
                     /\ IF r.ok THEN pc' = pc /\ idx' = idx + 1
                        ELSE pc' = "catch" /\ idx' = idx
    /\ UNCHANGED <<oldSpecStr, newSpecStr, oldSpec, newSpec, threw>>
    /\ UNCHANGED <<rankVars, runVars, restVars>>

\* catch (error) { console.error(...); return []; }
Catch ==
    /\ pc = "catch"
    /\ threw' = TRUE
    /\ ret' = OnError(changes)
    /\ pc' = "done"
    /\ UNCHANGED <<oldSpecStr, newSpecStr, oldSpec, newSpec, changes, idx>>
    /\ UNCHANGED <<rankVars, runVars, restVars>>

Next == ParseOld \/ ParseNew \/ Forward \/ Backward \/ Catch

Spec == Init /\ [][Next]_vars

-----------------------------------------------------------------------------
(* diffOpenAPISpecs as a function of its two arguments: the value the      *)
(* statements above return, used to compare a run with the swapped run.    *)

RECURSIVE ForwardLoop(_, _, _, _)
ForwardLoop(oldS, newS, paths, acc) ==
    IF paths = <<>> THEN Ok(acc)
    ELSE LET r == ForwardPath(oldS, newS, Head(paths), acc)
         IN  IF r.ok THEN ForwardLoop(oldS, newS, Tail(paths), r.v) ELSE r

RECURSIVE BackwardLoop(_, _, _, _)
BackwardLoop(oldS, newS, paths, acc) ==
    IF paths = <<>> THEN Ok(acc)
    ELSE LET r == BackwardPath(oldS, newS, Head(paths), acc)
         IN  IF r.ok THEN BackwardLoop(oldS, newS, Tail(paths), r.v) ELSE r

diffOpenAPISpecs(oldStr, newStr) ==
    LET o == parseSpec(oldStr)
        n == parseSpec(newStr)
    IN  IF ~o.ok \/ ~n.ok THEN OnError(<<>>)
        ELSE IF Nullish(n.v) THEN OnError(<<>>)
        ELSE LET f == ForwardLoop(o.v, n.v, PathKeys(n.v), <<>>)
             IN  IF ~f.ok \/ Nullish(o.v) THEN OnError(f.v)
                 ELSE LET b == BackwardLoop(o.v, n.v, PathKeys(o.v), f.v)
                      IN  IF b.ok THEN b.v ELSE OnError(b.v)

-----------------------------------------------------------------------------
(* Vocabulary of the properties.                                           *)

Range(q) == {q[i] : i \in 1..Len(q)}

\* The number of positions of q that hold x.
Count(q, x) == Cardinality({i \in 1..Len(q) : q[i] = x})

IsObject(v) == v.t = "object"

ValidParam(p) ==
    /\ IsObject(p)
    /\ Get(p, "name").t = "string"
    /\ Get(p, "in").t = "string"
    /\ Get(p, "required").t \in {"undefined", "boolean"}

\* No two parameters of the list share name and location.
UniqueParams(a) ==
    \A i, j \in 1..Len(a) :
        (i # j) => ~(/\ Get(a[i], "name") = Get(a[j], "name")
                     /\ Get(a[i], "in") = Get(a[j], "in"))

ValidOperation(op) ==
    /\ IsObject(op)
    /\ LET ps == Get(op, "parameters")
       IN  \/ ps.t = "undefined"
           \/ /\ ps.t = "array"
              /\ \A i \in 1..Len(ps.a) : ValidParam(ps.a[i])
              /\ UniqueParams(ps.a)
    /\ LET rs == Get(op, "responses")
       IN  \/ rs.t = "undefined"
           \/ /\ IsObject(rs)
              /\ \A i \in 1..Len(rs.e) : IsObject(rs.e[i].v)

ValidPathItem(item) ==
    /\ IsObject(item)
    /\ \A i \in 1..Len(item.e) : ValidOperation(item.e[i].v)

\* A spec of the shape paths -> methods -> {parameters, responses}.
ValidSpec(v) ==
    /\ IsObject(v)
    /\ LET ps == Get(v, "paths")
       IN  \/ ps.t = "undefined"
           \/ /\ IsObject(ps)
              /\ \A i \in 1..Len(ps.e) : ValidPathItem(ps.e[i].v)

\* A run that parsed two valid specs and returned.
DoneValid == pc = "done" /\ ValidSpec(oldSpec) /\ ValidSpec(newSpec)

ShapedOperation(op) ==
    /\ IsObject(op)
    /\ Get(op, "parameters").t \in {"undefined", "array"}
    /\ Get(op, "responses").t \in {"undefined", "object"}

\* paths -> methods -> operations, the parameter lists not looked into.
ShapedSpec(v) ==
    /\ IsObject(v)
    /\ LET ps == Get(v, "paths")
       IN  \/ ps.t = "undefined"
           \/ /\ IsObject(ps)
              /\ \A i \in 1..Len(ps.e) :
                    /\ IsObject(ps.e[i].v)
                    /\ \A j \in 1..Len(ps.e[i].v.e) : ShapedOperation(ps.e[i].v.e[j].v)

\* A run that parsed two specs of that shape and returned.
DoneShaped == pc = "done" /\ ShapedSpec(oldSpec) /\ ShapedSpec(newSpec)

PathsOf(spec) == Range(PathKeys(spec))
MethodsOf(spec, path) ==
    IF path \in PathsOf(spec) THEN Range(ForIn(Get(Get(spec, "paths"), path))) ELSE {}

\* The paths of the records of one type, and the (path, method) pairs.
PathsOfType(cs, type) == {cs[i].path : i \in {j \in 1..Len(cs) : cs[j].type = type}}
PairsOfType(cs, type) ==
    {<<cs[i].path, cs[i].method>> : i \in {j \in 1..Len(cs) : cs[j].type = type}}

\* The run with the two arguments exchanged.
Swapped == diffOpenAPISpecs(newSpecStr, oldSpecStr)

-----------------------------------------------------------------------------
(* Properties of the diff.                                                 *)

\* The run returns what the function of its arguments gives.
RunIsFunction == pc = "done" => ret = diffOpenAPISpecs(oldSpecStr, newSpecStr)

\* C1: the diff of a valid spec with itself is the empty sequence.
C1_Idempotence == (DoneValid /\ oldSpec = newSpec) => ret = <<>>

C1_Witness ==
    /\ DoneValid
    /\ oldSpec = newSpec
    /\ Cardinality(PathsOf(oldSpec)) = 2
    /\ ret = <<>>

\* C2: the new_endpoint (new_method) records of diff(A, B) are the
\* removed_endpoint (removed_method) records of diff(B, A), and conversely.
C2_SwapCompleteness ==
    DoneShaped =>
        /\ PathsOfType(ret, "new_endpoint") = PathsOfType(Swapped, "removed_endpoint")
        /\ PathsOfType(ret, "removed_endpoint") = PathsOfType(Swapped, "new_endpoint")
        /\ PairsOfType(ret, "new_method") = PairsOfType(Swapped, "removed_method")
        /\ PairsOfType(ret, "removed_method") = PairsOfType(Swapped, "new_method")

C2_Witness ==
    /\ DoneValid
    /\ PathsOfType(ret, "new_endpoint") # {}
    /\ PairsOfType(ret, "new_method") # {}
    /\ PairsOfType(ret, "removed_method") # {}
    /\ PathsOfType(Swapped, "removed_endpoint") # {}

\* The details of the record of the given type for a path and method, <<>> when
\* there is no such record.
DetailsOf(cs, type, p, m) ==
    LET I == {i \in 1..Len(cs) : cs[i].type = type /\ cs[i].path = p /\ cs[i].method = m}
    IN  IF I = {} THEN <<>> ELSE cs[CHOOSE i \in I : TRUE].details

\* A delta as the swapped run reports it.
Mirror(d) ==
    CASE d.type = "new_parameter" -> [d EXCEPT !.type = "removed_parameter"]
      [] d.type = "removed_parameter" -> [d EXCEPT !.type = "new_parameter"]
      [] d.type = "parameter_requirement_changed" -> [d EXCEPT !.from = d.to, !.to = d.from]
      [] d.type = "new_response_code" -> [d EXCEPT !.type = "removed_response_code"]
      [] d.type = "removed_response_code" -> [d EXCEPT !.type = "new_response_code"]

\* C3: for a path and method in both specs, diff(A, B) has a
\* parameter_changes (response_changes) record iff diff(B, A) has one, and
\* the details of the one are the mirrored details of the other.
C3_SwapSymmetry ==
    DoneValid =>
        \A p \in PathNames, m \in MethodNames, type \in {"parameter_changes", "response_changes"} :
            LET ab == DetailsOf(ret, type, p, m)
                ba == DetailsOf(Swapped, type, p, m)
            IN  /\ Len(ab) = Len(ba)
                /\ {Mirror(ab[i]) : i \in 1..Len(ab)} = Range(ba)

C3_Witness ==
    /\ DoneValid
    /\ \E d \in Range(DetailsOf(ret, "parameter_changes", PUsers, "get")) :
           d.type = "parameter_requirement_changed" /\ d.from # d.to
    /\ \E d \in Range(DetailsOf(ret, "parameter_changes", PUsers, "get")) :
           d.type = "new_parameter"

\* A second witness of the same kind, for the response codes.
C3_WitnessCodes ==
    /\ DoneValid
    /\ Len(DetailsOf(ret, "response_changes", PUsers, "get")) = 3

\* C4: a run always returns a sequence, and the empty one whenever an input
\* does not parse or an exception was raised during the traversal, whatever
\* had been pushed before.
C4_NeverRaises ==
    /\ (~parseSpec(oldSpecStr).ok \/ ~parseSpec(newSpecStr).ok) => pc \in {"parseOld", "parseNew", "catch", "done"}
    /\ pc = "catch" => ENABLED Catch
    /\ pc = "done" =>
           /\ (threw \/ ~parseSpec(oldSpecStr).ok \/ ~parseSpec(newSpecStr).ok) => ret = <<>>
           /\ (~parseSpec(oldSpecStr).ok \/ ~parseSpec(newSpecStr).ok) => threw

C4_Witness == pc = "done" /\ threw /\ changes # <<>> /\ ret = <<>>

C4_WitnessUnparsable ==
    pc = "done" /\ parseSpec(oldSpecStr).ok /\ ~parseSpec(newSpecStr).ok /\ ret = <<>>

\* C5: new_endpoint{p} is reported once when p is a path of new and not of
\* old and never otherwise, removed_endpoint{p} once when p is a path of old
\* and not of new, new_method{p, m} once when p is in both and m is a method
\* of new[p] only, removed_method{p, m} once when m is a method of old[p]
\* only; there is no other record of these four types.
C5_StructuralRecords ==
    DoneShaped =>
        /\ \A p \in PathNames :
            /\ Count(ret, [type |-> "new_endpoint", path |-> p])
                 = IF p \in PathsOf(newSpec) \ PathsOf(oldSpec) THEN 1 ELSE 0
            /\ Count(ret, [type |-> "removed_endpoint", path |-> p])
                 = IF p \in PathsOf(oldSpec) \ PathsOf(newSpec) THEN 1 ELSE 0
            /\ \A m \in MethodNames :
                /\ Count(ret, [type |-> "new_method", path |-> p, method |-> m])
                     = IF /\ p \in PathsOf(oldSpec) \cap PathsOf(newSpec)
                          /\ m \in MethodsOf(newSpec, p) \ MethodsOf(oldSpec, p)
                       THEN 1 ELSE 0
                /\ Count(ret, [type |-> "removed_method", path |-> p, method |-> m])
                     = IF /\ p \in PathsOf(oldSpec) \cap PathsOf(newSpec)
                          /\ m \in MethodsOf(oldSpec, p) \ MethodsOf(newSpec, p)
                       THEN 1 ELSE 0
        /\ \A i \in 1..Len(ret) :
            /\ ret[i].type \in {"new_endpoint", "removed_endpoint", "new_method", "removed_method"}
                 => ret[i].path \in PathNames
            /\ ret[i].type \in {"new_method", "removed_method"} => ret[i].method \in MethodNames

\* Adding POST to a path that has GET: exactly one record, the new_method.
C5_Witness ==
    /\ DoneValid
    /\ MethodsOf(oldSpec, PUsers) = {"get"}
    /\ MethodsOf(newSpec, PUsers) = {"get", "post"}
    /\ PathsOf(oldSpec) = PathsOf(newSpec)
    /\ Get(Get(Get(oldSpec, "paths"), PUsers), "get") = Get(Get(Get(newSpec, "paths"), PUsers), "get")
    /\ ret = <<[type |-> "new_method", path |-> PUsers, method |-> "post"]>>

\* The parameter list of an operation, [] when it has none.
ParamsOf(spec, p, m) ==
    OrDefault(Get(Get(Get(Get(spec, "paths"), p), m), "parameters"), Arr(<<>>)).a

\* `required`, an absent one defaulted to false.
Required(param) == OrDefault(Get(param, "required"), JSFalse)

\* C6: for a parameter whose (name, in) pair is in both lists, a
\* parameter_requirement_changed delta is reported exactly when the two
\* required flags, an absent one read as false, differ; and from # to in
\* every such delta.
C6_RequirementChanged ==
    DoneValid =>
        \A p \in PathNames, m \in MethodNames :
            LET details == Range(DetailsOf(ret, "parameter_changes", p, m))
                oldA == ParamsOf(oldSpec, p, m)
                newA == ParamsOf(newSpec, p, m)
            IN  /\ \A i \in 1..Len(newA) :
                       Truthy(FindParam(oldA, newA[i])) =>
                           ((\E d \in details :
                                  /\ d.type = "parameter_requirement_changed"
                                  /\ d.parameter = Get(newA[i], "name")
                                  /\ d.location = Get(newA[i], "in"))
                            <=> Required(FindParam(oldA, newA[i])) # Required(newA[i]))
                /\ \A d \in details :
                       d.type = "parameter_requirement_changed" => d.from # d.to

-----------------------------------------------------------------------------
(* src/scripts/suggest-updates.js: extractApiEndpoints                     *)

Slash == <<"/">>
Quotes == {"\"", "'"}
Digits == {"0", "1", "2", "3", "4", "5", "6", "7", "8", "9"}
Letters == Range(UpperCase) \cup Range(LowerCase)

\* Mutant of StripPathsPrefix: the expression without its ^, which cuts the
\* first "/paths" wherever it is.
StripPathsAnywhere(str) ==
    LET hits == {i \in 1..Len(str) : MatchAt(str, Chars("/paths"), i)}
    IN  IF hits = {} THEN str
        ELSE LET i == CHOOSE h \in hits : \A k \in hits : h <= k
             IN  SubSeq(str, 1, i - 1) \o SubSeq(str, i + Len(Chars("/paths")), Len(str))

\* cleanPath.replace(/^\/paths/, '')
StripPathsPrefix(str) ==
    IF StartsWith(str, Chars("/paths")) THEN Drop(str, Len(Chars("/paths"))) ELSE str

HttpMethodNames == {"get", "post", "put", "delete", "patch", "head", "options"}

\* cleanPath.replace(/\/(get|post|put|delete|patch|head|options)$/, '')
StripMethodSuffix(str) ==
    LET hits == {m \in HttpMethodNames : EndsWith(str, Slash \o Chars(m))}
    IN  IF hits = {} THEN str
        ELSE SubSeq(str, 1, Len(str) - 1 - Len(Chars(CHOOSE m \in hits : TRUE)))

\* The position of the first "}" of str at or after position i, 0 when none.
NextBrace(str, i) ==
    LET js == {j \in i..Len(str) : str[j] = "}"}
    IN  IF js = {} THEN 0 ELSE CHOOSE j \in js : \A k \in js : j <= k

\* Whether /\/\{[^}]+\}(\/.*)?$/ matches at position i.
ParamTailAt(str, i) ==
    /\ MatchAt(str, <<"/", "{">>, i)
    /\ LET j == NextBrace(str, i + 2)
       IN  /\ j >= i + 3
           /\ (j = Len(str) \/ str[j + 1] = "/")

\* cleanPath.replace(/\/\{[^}]+\}(\/.*)?$/, ''): the leftmost match is cut.
StripParamTail(str) ==
    LET hits == {i \in 1..Len(str) : ParamTailAt(str, i)}
    IN  IF hits = {} THEN str
        ELSE SubSeq(str, 1, (CHOOSE i \in hits : \A k \in hits : i <= k) - 1)

RECURSIVE PartialPathsFromThree(_, _)
\* Mutant of PartialPaths: the loop stops at i > 2.
PartialPathsFromThree(segments, i) ==
    IF i <= 2 THEN <<>>
    ELSE LET partialPath == Slash \o Join(Slice(segments, 0, i), Slash)
         IN  (IF ~Includes(partialPath, <<"{">>) THEN <<partialPath>> ELSE <<>>)
             \o PartialPathsFromThree(segments, i - 1)

\* The loop `for (let i = segments.length; i >= 2; i--)`: the prefixes of i
\* segments without "{", the longest first.
RECURSIVE PartialPaths(_, _)
PartialPaths(segments, i) ==
    IF i < 2 THEN <<>>
    ELSE LET partialPath == Slash \o Join(Slice(segments, 0, i), Slash)
         IN  (IF ~Includes(partialPath, <<"{">>) THEN <<partialPath>> ELSE <<>>)
             \o PartialPaths(segments, i - 1)

\* What the `if (change.path)` block adds to the set (lines 186-218).
PathEndpoints(change) ==
    IF "path" \notin DOMAIN change \/ change.path = <<>> THEN <<>>
    ELSE LET cleanPath == StripMethodSuffix(StripPathsPrefix(change.path))
         IN  IF ~(StartsWith(cleanPath, Slash) /\ Len(cleanPath) > 1) THEN <<>>
             ELSE LET withoutParams == StripParamTail(cleanPath)
                      segments == FilterBoolean(Split(cleanPath, "/"))
                  IN  <<cleanPath>>
                      \o (IF withoutParams # cleanPath /\ Len(withoutParams) > 1
                          THEN <<withoutParams>> ELSE <<>>)
                      \o (IF Len(segments) > 1 THEN PartialPaths(segments, Len(segments))
                          ELSE <<>>)

\* JSON.stringify of a string: quoted, with " and \ escaped.
RECURSIVE Escaped(_)
Escaped(str) ==
    IF str = <<>> THEN <<>>
    ELSE (IF Head(str) \in {"\"", "\\"} THEN <<"\\", Head(str)>> ELSE <<Head(str)>>)
         \o Escaped(Tail(str))

Quoted(str) == <<"\"">> \o Escaped(str) \o <<"\"">>

\* JSON.stringify of a string or boolean value of a delta.
StringifyValue(v) ==
    IF v.t = "string" THEN Quoted(Chars(v.s))
    ELSE IF v.b THEN Chars("true") ELSE Chars("false")

Member(key, text) == Quoted(Chars(key)) \o <<":">> \o text

\* JSON.stringify of one delta: its properties in the order they were written;
\* a property whose value is undefined is left out.
StringifyDelta(d) ==
    LET valued(key, v) == IF v.t = "undefined" THEN <<>> ELSE <<Member(key, StringifyValue(v))>>
        members ==
            <<Member("type", Quoted(Chars(d.type)))>>
            \o (IF "parameter" \in DOMAIN d THEN valued("parameter", d.parameter) ELSE <<>>)
            \o (IF "location" \in DOMAIN d THEN valued("location", d.location) ELSE <<>>)
            \o (IF "from" \in DOMAIN d THEN valued("from", d.from) ELSE <<>>)
            \o (IF "to" \in DOMAIN d THEN valued("to", d.to) ELSE <<>>)
            \o (IF "code" \in DOMAIN d THEN <<Member("code", Quoted(Chars(d.code)))>> ELSE <<>>)
            \o (IF "operationId" \in DOMAIN d THEN valued("operationId", d.operationId) ELSE <<>>)
    IN  <<"{">> \o Join(members, <<",">>) \o <<"}">>

\* JSON.stringify(change.details), details being an array of deltas.
StringifyDetails(details) ==
    <<"[">> \o Join([i \in 1..Len(details) |-> StringifyDelta(details[i])], <<",">>) \o <<"]">>

\* [a-zA-Z0-9\/_\-{}]
PathChar(c) == c \in Letters \cup Digits \cup {"/", "_", "-", "{", "}"}

\* The length of the run of path characters of str that starts at position i.
RECURSIVE RunLength(_, _)
RunLength(str, i) ==
    IF i > Len(str) \/ ~PathChar(str[i]) THEN 0 ELSE 1 + RunLength(str, i + 1)

\* Whether /["']([\/][a-zA-Z0-9\/_\-{}]+)["']/ matches at position i: a quote,
\* a run of at least two path characters that starts with "/", a quote.
QuotedPathAt(str, i) ==
    /\ str[i] \in Quotes
    /\ i + 1 <= Len(str)
    /\ str[i + 1] = "/"
    /\ LET n == RunLength(str, i + 1)
       IN  /\ n >= 2
           /\ i + n + 1 <= Len(str)
           /\ str[i + n + 1] \in Quotes

\* The matches of that expression with the g flag from position i on, each
\* without its quotes (match.replace(/["']/g, '')); the search resumes after
\* the closing quote of a match.
RECURSIVE QuotedPaths(_, _)
QuotedPaths(str, i) ==
    LET hits == {h \in i..Len(str) : QuotedPathAt(str, h)}
    IN  IF hits = {} THEN <<>>
        ELSE LET h == CHOOSE x \in hits : \A k \in hits : x <= k
                 n == RunLength(str, h + 1)
             IN  <<SubSeq(str, h + 1, h + n)>> \o QuotedPaths(str, h + n + 2)

\* The number of white space characters of str from position i on (\s*).
RECURSIVE SpaceLength(_, _)
SpaceLength(str, i) ==
    IF i > Len(str) \/ str[i] \notin {" ", "\t", "\n", "\r"} THEN 0
    ELSE 1 + SpaceLength(str, i + 1)

\* The position of the first " of str at or after position i, 0 when none.
NextQuote(str, i) ==
    LET js == {j \in i..Len(str) : str[j] = "\""}
    IN  IF js = {} THEN 0 ELSE CHOOSE j \in js : \A k \in js : j <= k

OperationIdKey == Quoted(Chars("operationId")) \o <<":">>

\* Group 1 of the first match of /"operationId":\s*"([^"]+)"/, <<>> when
\* there is no match.
OperationIdOf(str) ==
    LET valueAt(i) == i + Len(OperationIdKey) + SpaceLength(str, i + Len(OperationIdKey))
        \* the first " after the opening one: [^"]+ cannot run past it
        closing(i) == NextQuote(str, valueAt(i) + 1)
        hit(i) == /\ MatchAt(str, OperationIdKey, i)
                  /\ valueAt(i) <= Len(str)
                  /\ str[valueAt(i)] = "\""
                  /\ closing(i) >= valueAt(i) + 2
        hits == {i \in 1..Len(str) : hit(i)}
    IN  IF hits = {} THEN <<>>
        ELSE LET i == CHOOSE h \in hits : \A k \in hits : h <= k
             IN  SubSeq(str, valueAt(i) + 1, closing(i) - 1)

\* operationId.replace(/([A-Z])/g, '-$1')
RECURSIVE DashUpper(_)
DashUpper(str) ==
    IF str = <<>> THEN <<>>
    ELSE (IF Head(str) \in Range(UpperCase) THEN <<"-", Head(str)>> ELSE <<Head(str)>>)
         \o DashUpper(Tail(str))

\* str.split(/[-_]/)
RECURSIVE SplitDashes(_, _)
SplitDashes(str, cur) ==
    IF str = <<>> THEN <<cur>>
    ELSE IF Head(str) \in {"-", "_"} THEN <<cur>> \o SplitDashes(Tail(str), <<>>)
    ELSE SplitDashes(Tail(str), Append(cur, Head(str)))

\* What the `if (change.details && typeof change.details === 'object')` block
\* adds to the set (lines 221-248).
DetailsEndpoints(change) ==
    IF "details" \notin DOMAIN change THEN <<>>
    ELSE LET detailsStr == StringifyDetails(change.details)
             pathMatches == QuotedPaths(detailsStr, 1)
             kept == {pathMatches[i] : i \in {j \in 1..Len(pathMatches) :
                          Len(pathMatches[j]) > 3 /\ Includes(pathMatches[j], Slash)}}
             operationId == OperationIdOf(detailsStr)
             parts == SplitDashes(ToLowerCase(DashUpper(operationId)), <<>>)
             segments == Filter(parts, {parts[i] : i \in {j \in 1..Len(parts) : Len(parts[j]) > 2}})
         IN  Filter(pathMatches, kept)
             \o (IF operationId # <<>> /\ Len(segments) > 0
                 THEN <<Slash \o Join(segments, Slash)>> ELSE <<>>)

RECURSIVE CollectEndpoints(_)
\* diff.changes.forEach(...): what is added to the set, in order.
CollectEndpoints(cs) ==
    IF cs = <<>> THEN <<>>
    ELSE PathEndpoints(Head(cs)) \o DetailsEndpoints(Head(cs)) \o CollectEndpoints(Tail(cs))

\* Mutant of KeptEndpoint: "/api" is not tested for.
KeptEndpointNoApi(endpoint) ==
    /\ Len(endpoint) > 3
    /\ ~(Len(endpoint) = 2 /\ endpoint[1] = "/" /\ endpoint[2] \in Range(LowerCase))
    /\ endpoint # Chars("/v1")
    /\ endpoint # Chars("/v2")

\* The filter of lines 252-258.
KeptEndpoint(endpoint) ==
    /\ Len(endpoint) > 3
    /\ ~(Len(endpoint) = 2 /\ endpoint[1] = "/" /\ endpoint[2] \in Range(LowerCase))
    /\ endpoint # Chars("/api")
    /\ endpoint # Chars("/v1")
    /\ endpoint # Chars("/v2")

extractApiEndpoints(d) ==
    LET endpoints == Dedupe(CollectEndpoints(d.changes))
    IN  Filter(endpoints, {endpoints[i] : i \in {j \in 1..Len(endpoints) : KeptEndpoint(endpoints[j])}})

-----------------------------------------------------------------------------
(* src/scripts/suggest-updates.js: findRelevantTestFiles                   *)

\* A file of the corpus. The corpus is allTestFiles followed by padFiles
\* further files t/f1.js, t/f2.js, ...: n is the number in the name of such a
\* file and 0 for a file of allTestFiles.
File(path) == [path |-> path, n |-> 0]
FillerPath == <<"t", "/", "f", ".", "j", "s">>
Filler(j) == [path |-> FillerPath, n |-> j]

\* What is in each further file: text that names no endpoint.
FillerText == <<"/", "/", " ", "T", "O", "D", "O">>

ReadOk(text) == [ok |-> TRUE, text |-> text]
ReadFails == [ok |-> FALSE, text |-> <<>>]

\* fs.readFileSync(testFile, 'utf8'): the content, or an exception.
readFileSync(file) == IF file.n = 0 THEN fsys[file] ELSE ReadOk(FillerText)

\* allTestFiles.length, and allTestFiles.slice(0, to)
CorpusLen == Len(allTestFiles) + padFiles
CorpusAt(i) == IF i <= Len(allTestFiles) THEN allTestFiles[i] ELSE Filler(i - Len(allTestFiles))
CorpusSlice(to) == [i \in 1..Min(to, CorpusLen) |-> CorpusAt(i)]

\* path.basename(file)
Basename(path) ==
    LET parts == FilterBoolean(Split(path, "/"))
    IN  IF parts = <<>> THEN <<>> ELSE parts[Len(parts)]

\* endpoint.replace(/^\//, '')
StripLeadingSlash(str) == IF StartsWith(str, Slash) THEN Drop(str, 1) ELSE str

\* Whether /\{[^}]+\}/ matches at position i.
ParamAt(str, i) == str[i] = "{" /\ NextBrace(str, i + 1) >= i + 2

\* endpoint.replace(/\{[^}]+\}/g, ''), from position i on.
RECURSIVE StripParamsFrom(_, _)
StripParamsFrom(str, i) ==
    LET hits == {h \in i..Len(str) : ParamAt(str, h)}
    IN  IF hits = {} THEN SubSeq(str, i, Len(str))
        ELSE LET h == CHOOSE x \in hits : \A k \in hits : x <= k
             IN  SubSeq(str, i, h - 1) \o StripParamsFrom(str, NextBrace(str, h + 1) + 1)

StripParams(str) == StripParamsFrom(str, 1)

\* The ways an endpoint may be written in a test (lines 126-132).
Patterns(endpoint) ==
    LET parts == Split(endpoint, "/")
        named == {parts[i] : i \in {j \in 1..Len(parts) :
                     /\ parts[j] # <<>>
                     /\ ~StartsWith(parts[j], <<"{">>)
                     /\ Len(parts[j]) > 2}}
    IN  <<endpoint,
          StripLeadingSlash(endpoint),
          StripParams(endpoint),
          Join(FilterBoolean(parts), Slash)>>
        \o Filter(parts, named)

\* The pushes of `patterns.forEach(...)` for one endpoint: one per pattern
\* that is not empty and occurs in the lower-cased content.
PatternHits(endpoint, content) ==
    LET ps == Patterns(endpoint)
    IN  [i \in 1..Cardinality({j \in 1..Len(ps) :
                 ps[j] # <<>> /\ Includes(content, ToLowerCase(ps[j]))}) |-> endpoint]

RECURSIVE MatchesOf(_, _)
\* const matches, after changedEndpoints.forEach(...)
MatchesOf(endpoints, content) ==
    IF endpoints = <<>> THEN <<>>
    ELSE PatternHits(Head(endpoints), content) \o MatchesOf(Tail(endpoints), content)

\* endpointMatches.get(file)?.length || 0
MatchCount(em, file) == IF file \in DOMAIN em THEN Len(em[file]) ELSE 0

\* endpointMatches.set(file, value)
MapSet(em, file, value) ==
    [f \in DOMAIN em \cup {file} |-> IF f = file THEN value ELSE em[f]]

\* Mutant of InsertByMatches: a file goes before the files it ties with.
RECURSIVE InsertBeforeTies(_, _, _)
InsertBeforeTies(file, sorted, em) ==
    IF sorted = <<>> THEN <<file>>
    ELSE IF MatchCount(em, Head(sorted)) > MatchCount(em, file)
         THEN <<Head(sorted)>> \o InsertBeforeTies(file, Tail(sorted), em)
         ELSE <<file>> \o sorted

RECURSIVE InsertByMatches(_, _, _)
\* The place of a file among files already sorted: after every file with as
\* many matches or more (the comparator is bMatches - aMatches, the sort stable).
InsertByMatches(file, sorted, em) ==
    IF sorted = <<>> THEN <<file>>
    ELSE IF MatchCount(em, Head(sorted)) >= MatchCount(em, file)
         THEN <<Head(sorted)>> \o InsertByMatches(file, Tail(sorted), em)
         ELSE <<file>> \o sorted

RECURSIVE SortByMatches(_, _)
\* relevantFiles.sort((a, b) => bMatches - aMatches)
SortByMatches(files, em) ==
    IF files = <<>> THEN <<>>
    ELSE InsertByMatches(files[Len(files)], SortByMatches(SubSeq(files, 1, Len(files) - 1), em), em)

\* Math.min(5, Math.max(2, Math.floor(15000 / Math.max(allTestFiles.length, 1))))
MaxFilesFor(n) == Min(5, Max(2, 15000 \div Max(n, 1)))

\* Mutant of TopMatches: every sorted file is returned.
TopMatchesAll(sortedFiles, maxFiles) == sortedFiles

\* sortedFiles.slice(0, maxFiles)
TopMatches(sortedFiles, maxFiles) == Slice(sortedFiles, 0, maxFiles)

ApiMarkers == {"api", "endpoint", "integration", "service"}

\* The test of the filter of lines 169-175.
IsApiTestFile(file) ==
    LET fileName == ToLowerCase(Basename(file.path))
    IN  \E m \in ApiMarkers : Includes(fileName, Chars(m))

\* allTestFiles.filter(...).slice(0, 2): the first two files of the corpus that pass.
ApiTestFiles ==
    LET first == Filter(allTestFiles, {f \in Range(allTestFiles) : IsApiTestFile(f)})
        further == IF IsApiTestFile(Filler(1)) THEN [j \in 1..Min(2, padFiles) |-> Filler(j)]
                   ELSE <<>>
    IN  Slice(first \o further, 0, 2)

\* ToBoolean of an array: true, also of an empty one.
ArrayTruthy(a) == TRUE

\* Mutant of GeneralContext: allTestFiles[0] and allTestFiles[1], there or not.
GeneralContextByIndex == [i \in 1..2 |-> IF i <= CorpusLen THEN CorpusAt(i) ELSE Undefined]

\* apiTestFiles.slice(0, Math.min(2, apiTestFiles.length)) || allTestFiles.slice(0, 2)
GeneralContext ==
    IF ArrayTruthy(ApiTestFiles) THEN ApiTestFiles ELSE CorpusSlice(2)

-----------------------------------------------------------------------------
(* The corpora and diffs findRelevantTestFiles is run on.                  *)

\* The most files of a corpus that are listed one by one.
MaxCorpus == 3

FApi == File(<<"a", "p", "i", ".", "t", "e", "s", "t", ".", "j", "s">>)
FUsers == File(<<"t", "/", "u", "s", "e", "r", "s", ".", "s", "p", "e", "c", ".", "j", "s">>)
\* "api" is in the directory, not in the file name
FOrders == File(<<"a", "p", "i", "/", "o", "r", "d", "e", "r", "s", ".", "j", "s">>)
\* a marker written with a capital
FService == File(<<"t", "/", "U", "s", "e", "r", "S", "e", "r", "v", "i", "c", "e", ".", "j", "s">>)
TestFiles == {FApi, FUsers, FOrders, FService}

\* "it('x')", "GET /v1/Users" and "orders,users"
TextNone == <<"i", "t", "(", "'", "x", "'", ")">>
TextUsers == <<"G", "E", "T", " ", "/", "v", "1", "/", "U", "s", "e", "r", "s">>
TextBoth == <<"o", "r", "d", "e", "r", "s", ",", "u", "s", "e", "r", "s">>
ReadOutcomes == {ReadFails, ReadOk(TextNone), ReadOk(TextUsers), ReadOk(TextBoth)}

\* The corpus is the listed files alone, or 4999 further files follow them.
PadSizes == {0, 4999}

PV1 == <<"/", "v", "1">>
PV1Users == <<"/", "v", "1", "/", "u", "s", "e", "r", "s">>
PV1Orders == <<"/", "v", "1", "/", "o", "r", "d", "e", "r", "s">>
PV1OrdersId == <<"/", "v", "1", "/", "o", "r", "d", "e", "r", "s", "/", "{", "i", "d", "}">>
SpecFile == <<"a", "p", "i", ".", "y", "a", "m", "l">>

\* Change lists as diffOpenAPISpecs returns them: one that yields no endpoint,
\* one that yields one, and two that yield two.
RankDiffs ==
    {[file |-> SpecFile, changes |-> <<[type |-> "new_endpoint", path |-> PV1]>>],
     [file |-> SpecFile, changes |-> <<[type |-> "new_endpoint", path |-> PV1Users]>>],
     [file |-> SpecFile,
      changes |-> <<[type |-> "new_method", path |-> PV1Users, method |-> "post"],
                    [type |-> "removed_endpoint", path |-> PV1Orders]>>],
     [file |-> SpecFile,
      changes |-> <<[type |-> "parameter_changes", path |-> PV1OrdersId, method |-> "get",
                     details |-> <<RequirementChanged(Param("expand", "query", JSTrue),
                                                      Param("expand", "query", JSFalse)),
                                   NewParameter(Param("id", "header", JSTrue))>>]>>]}

\* diffOpenAPISpecs is not running.
DiffIdle ==
    /\ oldSpecStr = Garbage
    /\ newSpecStr = Garbage
    /\ oldSpec = Undefined
    /\ newSpec = Undefined
    /\ changes = <<>>
    /\ idx = 0
    /\ threw = FALSE
    /\ ret = <<>>
    /\ pc = "idle"

\* findRelevantTestFiles has been called.
RankCalled(files, pad, read, d) ==
    /\ allTestFiles = files
    /\ padFiles = pad
    /\ fsys = read
    /\ diff = d
    /\ changedEndpoints = <<>>
    /\ relevantFiles = <<>>
    /\ endpointMatches = <<>>
    /\ fileIdx = 0
    /\ warned = {}
    /\ rankRet = <<>>
    /\ rankPc = "extract"
    /\ readCalls = 0
    /\ rankRetRef = "none"

\* suggestUpdates has listed the test files and is in the first turn of its loop.
RunStarted ==
    /\ invocation = 1
    /\ testFiles0 = allTestFiles
    /\ firstCall = NoCall

InitRank ==
    /\ DiffIdle
    /\ \E files \in SeqsNoDup(TestFiles, MaxCorpus), pad \in PadSizes, d \in RankDiffs :
           \E read \in [Range(files) -> ReadOutcomes] : RankCalled(files, pad, read, d)
    /\ RunStarted
    /\ RestIdle

\* Mutant of FallbackSelection: the first min(2, N) files.
FallbackSelectionTwo == CorpusSlice(Min(2, CorpusLen))

\* allTestFiles.slice(0, Math.min(3, allTestFiles.length))
FallbackSelection == CorpusSlice(Min(3, CorpusLen))

\* Mutant of SliceRef: the array itself is handed on.
SliceRefSame(array) == array

\* The array Array.prototype.slice returns: a new one, whatever it is called on.
SliceRef(array) == "new"

\* const changedEndpoints = extractApiEndpoints(diff);
\* if (changedEndpoints.length === 0) return allTestFiles.slice(0, Math.min(3, allTestFiles.length));
ExtractEndpoints ==
    /\ rankPc = "extract"
    /\ changedEndpoints' = extractApiEndpoints(diff)
    /\ IF Len(changedEndpoints') = 0
       THEN /\ rankRet' = FallbackSelection
            /\ rankRetRef' = SliceRef("allTestFiles")
            /\ rankPc' = "done"
            /\ fileIdx' = fileIdx
       ELSE /\ rankRet' = rankRet
            /\ rankRetRef' = rankRetRef
            /\ rankPc' = "scan"
            /\ fileIdx' = 1
    /\ UNCHANGED <<allTestFiles, padFiles, fsys, diff, relevantFiles, endpointMatches, warned,
                   readCalls>>
    /\ UNCHANGED <<diffVars, runVars, restVars>>

\* Mutant of MatchedEndpoints: an endpoint is kept once per pattern that hit.
MatchedEndpointsAll(matches) == matches

\* [...new Set(matches)]
MatchedEndpoints(matches) == Dedupe(matches)

\* What one iteration of `for (const testFile of allTestFiles)` does to
\* relevantFiles, endpointMatches and the warned files.
ScanOne(testFile, state) ==
    LET read == readFileSync(testFile)
    IN  IF ~read.ok THEN [state EXCEPT !.warned = @ \cup {testFile}]
        ELSE LET matches == MatchesOf(changedEndpoints, ToLowerCase(read.text))
             IN  IF Len(matches) > 0
                 THEN [state EXCEPT !.relevant = Append(@, testFile),
                                    !.matches = MapSet(@, testFile, MatchedEndpoints(matches))]
                 ELSE state

\* One iteration of the loop, for a file of allTestFiles.
ScanFile ==
    /\ rankPc = "scan"
    /\ fileIdx <= Len(allTestFiles)
    /\ LET after == ScanOne(allTestFiles[fileIdx],
                            [relevant |-> relevantFiles, matches |-> endpointMatches,
                             warned |-> warned])
       IN  /\ relevantFiles' = after.relevant
           /\ endpointMatches' = after.matches
           /\ warned' = after.warned
    /\ fileIdx' = fileIdx + 1
    /\ readCalls' = readCalls + 1
    /\ UNCHANGED <<allTestFiles, padFiles, fsys, diff, changedEndpoints, rankRet, rankPc,
                   rankRetRef>>
    /\ UNCHANGED <<diffVars, runVars, restVars>>

RECURSIVE ScanFillers(_, _)
\* The iterations for the further files 1..j, one after the other.
ScanFillers(j, state) ==
    IF j = 0 THEN state ELSE ScanOne(Filler(j), ScanFillers(j - 1, state))

\* The iterations of the loop for the further files. Each of them reads the
\* same text: when it matches nothing, none of them changes anything.
ScanPad ==
    /\ rankPc = "scan"
    /\ fileIdx = Len(allTestFiles) + 1
    /\ padFiles > 0
    /\ LET state == [relevant |-> relevantFiles, matches |-> endpointMatches, warned |-> warned]
           after == IF ScanOne(Filler(1), state) = state THEN state
                    ELSE ScanFillers(padFiles, state)
       IN  /\ relevantFiles' = after.relevant
           /\ endpointMatches' = after.matches
           /\ warned' = after.warned
    /\ fileIdx' = CorpusLen + 1
    /\ readCalls' = readCalls + padFiles
    /\ UNCHANGED <<allTestFiles, padFiles, fsys, diff, changedEndpoints, rankRet, rankPc,
                   rankRetRef>>
    /\ UNCHANGED <<diffVars, runVars, restVars>>

\* The sort, maxFiles, and the return of the fallback or of the top matches
\* (lines 150-179).
RankAndReturn ==
    /\ rankPc = "scan"
    /\ fileIdx = CorpusLen + 1
    /\ LET sortedFiles == SortByMatches(relevantFiles, endpointMatches)
           maxFiles == MaxFilesFor(CorpusLen)
       IN  /\ relevantFiles' = sortedFiles
           /\ rankRet' = IF Len(sortedFiles) = 0 THEN GeneralContext
                         ELSE TopMatches(sortedFiles, maxFiles)
           /\ rankRetRef' = IF Len(sortedFiles) = 0 THEN SliceRef("apiTestFiles")
                            ELSE SliceRef("relevantFiles")
    /\ rankPc' = "done"
    /\ UNCHANGED <<allTestFiles, padFiles, fsys, diff, changedEndpoints, endpointMatches,
                   fileIdx, warned, readCalls>>
    /\ UNCHANGED <<diffVars, runVars, restVars>>

NextRank == ExtractEndpoints \/ ScanFile \/ ScanPad \/ RankAndReturn

SpecRank == InitRank /\ [][NextRank]_vars

-----------------------------------------------------------------------------
(* src/scripts/suggest-updates.js: the loop of suggestUpdates over the     *)
(* diffs, as far as it touches the corpus: findRelevantTestFiles, then the *)
(* sort with which readTestFiles begins.                                   *)

\* The most turns of the loop.
MaxTurns == 2

\* fs.statSync(file): a file that cannot be read cannot be examined either.
statSync(file) ==
    LET read == readFileSync(file)
    IN  IF read.ok THEN [ok |-> TRUE, size |-> Len(read.text)] ELSE [ok |-> FALSE, size |-> 0]

\* The comparator of lines 293-301: aSize - bSize, and 0 when statSync throws.
CompareSize(a, b) ==
    IF statSync(a).ok /\ statSync(b).ok THEN statSync(a).size - statSync(b).size ELSE 0

\* Whether the comparator orders the files consistently: files it calls equal
\* to a same file are equal to each other.
ConsistentSizes(files) ==
    \A a, b, c \in Range(files) :
        CompareSize(a, b) = 0 /\ CompareSize(b, c) = 0 => CompareSize(a, c) = 0

RECURSIVE InsertBySize(_, _)
\* The place of a file among files already sorted: after every file that is
\* not larger.
InsertBySize(file, sorted) ==
    IF sorted = <<>> THEN <<file>>
    ELSE IF CompareSize(Head(sorted), file) <= 0
         THEN <<Head(sorted)>> \o InsertBySize(file, Tail(sorted))
         ELSE <<file>> \o sorted

RECURSIVE StableBySize(_)
StableBySize(files) ==
    IF files = <<>> THEN <<>>
    ELSE InsertBySize(files[Len(files)], StableBySize(SubSeq(files, 1, Len(files) - 1)))

\* What testFiles.sort(comparator) may leave in the array: the stable order by
\* size when the comparator is consistent, and otherwise an order the
\* language leaves to the implementation, which is some permutation.
SortOutcomes(files) ==
    IF ConsistentSizes(files) THEN {StableBySize(files)}
    ELSE {[i \in 1..Len(files) |-> files[p[i]]] : p \in Permutations(1..Len(files))}

\* The diffs of a run: one that names no endpoint and one that names two.
RunDiffs == {d \in RankDiffs : Len(d.changes) = 2 \/ d.changes[1].path = PV1}

RunFiles == {FApi, FUsers, FOrders}

InitRuns ==
    /\ DiffIdle
    /\ \E files \in SeqsNoDup(RunFiles, MaxCorpus), d \in RunDiffs :
           \E read \in [Range(files) -> ReadOutcomes] : RankCalled(files, 0, read, d)
    /\ RunStarted
    /\ RestIdle

\* const testFilesContent = await readTestFiles(relevantTestFiles, testRepoPath):
\* its first statement sorts the array it is given, in place; an array that
\* is allTestFiles itself is sorted for every holder of it.
ReadTestFilesSort ==
    /\ rankPc = "done"
    /\ \E sorted \in SortOutcomes(rankRet) :
           /\ rankRet' = sorted
           /\ allTestFiles' = IF rankRetRef = "allTestFiles"
                              THEN sorted \o SubSeq(allTestFiles, Len(sorted) + 1, Len(allTestFiles))
                              ELSE allTestFiles
           /\ firstCall' = IF invocation = 1
                           THEN [diff |-> diff, ret |-> rankRet, sorted |-> sorted]
                           ELSE firstCall
    /\ rankPc' = "read"
    /\ UNCHANGED <<padFiles, fsys, diff, changedEndpoints, relevantFiles, endpointMatches,
                   fileIdx, warned, readCalls, rankRetRef, invocation, testFiles0>>
    /\ UNCHANGED <<diffVars, restVars>>

\* The next turn of `for (const diff of apiDiffs)`: findRelevantTestFiles is
\* called with the same testFiles and the next diff.
NextTurn ==
    /\ rankPc = "read"
    /\ invocation < MaxTurns
    /\ invocation' = invocation + 1
    /\ \E d \in RunDiffs : diff' = d
    /\ changedEndpoints' = <<>>
    /\ relevantFiles' = <<>>
    /\ endpointMatches' = <<>>
    /\ fileIdx' = 0
    /\ warned' = {}
    /\ rankRet' = <<>>
    /\ rankPc' = "extract"
    /\ readCalls' = 0
    /\ rankRetRef' = "none"
    /\ UNCHANGED <<allTestFiles, padFiles, fsys, testFiles0, firstCall>>
    /\ UNCHANGED <<diffVars, restVars>>

NextRuns == ExtractEndpoints \/ ScanFile \/ RankAndReturn \/ ReadTestFilesSort \/ NextTurn

SpecRuns == InitRuns /\ [][NextRuns]_vars

-----------------------------------------------------------------------------
(* The change lists extractApiEndpoints is run on, one by one, as the      *)
(* first step of findRelevantTestFiles.                                    *)

\* The most segments of a path.
MaxSegments == 3

\* "paths", "api", "v1", "users", "orders", "{id}", "delete" and the empty
\* segment of a doubled slash.
PathSegments ==
    {<<"p", "a", "t", "h", "s">>, <<"a", "p", "i">>, <<"v", "1">>,
     <<"u", "s", "e", "r", "s">>, <<"o", "r", "d", "e", "r", "s">>,
     <<"{", "i", "d", "}">>, <<"d", "e", "l", "e", "t", "e">>, <<>>}

\* "/" before each segment.
PathOf(segments) == Slash \o Join(segments, Slash)

\* The paths of 1 to MaxSegments segments; "" and "/pathsusers".
ExtractPaths ==
    {PathOf(q) : q \in UNION {[1..k -> PathSegments] : k \in 1..MaxSegments}}
    \cup {<<>>, <<"/", "p", "a", "t", "h", "s", "u", "s", "e", "r", "s">>}

\* Details whose strings look like paths or carry an operationId.
ExtractDetails ==
    {<<[type |-> "new_parameter", parameter |-> Str(n), location |-> Str("query")]>> :
        n \in {"/api/items", "/v2", "/api", "/v1/users", "expand"}}
    \cup {<<[type |-> "new_parameter", parameter |-> Str("id"), location |-> Str("query"),
            operationId |-> Str(o)]>> : o \in {"getUserById", "api", "id"}}

\* Change lists of one change with a path, of one change with details, and of
\* two changes with paths.
ExtractDiffs ==
    {[file |-> SpecFile, changes |-> <<[type |-> "new_endpoint", path |-> p]>>] :
        p \in ExtractPaths}
    \cup {[file |-> SpecFile,
           changes |-> <<[type |-> "parameter_changes", path |-> PV1Users, method |-> "get",
                          details |-> d]>>] : d \in ExtractDetails}
    \cup {[file |-> SpecFile,
           changes |-> <<[type |-> "removed_endpoint", path |-> p],
                         [type |-> "new_endpoint", path |-> q]>>] :
            p, q \in {PV1, PV1Users, PV1OrdersId}}

\* findRelevantTestFiles is called with one of these change lists and a corpus
\* of one listed file and one further file.
InitExtract ==
    /\ DiffIdle
    /\ \E d \in ExtractDiffs : RankCalled(<<FUsers>>, 1, FUsers :> ReadOk(TextUsers), d)
    /\ RunStarted
    /\ RestIdle

SpecExtract == InitExtract /\ [][NextRank]_vars

-----------------------------------------------------------------------------
(* findRelevantTestFiles over documents that name an endpoint in one way   *)
(* and not in another.                                                     *)

\* The most documents of a corpus here.
MaxScored == 2

\* "/v1/Users", "/v1/users/{id}", "/v1/{id}/me" and "/v1/me".
PV1UsersCap == <<"/", "v", "1", "/", "U", "s", "e", "r", "s">>
PV1UsersId == <<"/", "v", "1", "/", "u", "s", "e", "r", "s", "/", "{", "i", "d", "}">>
PV1IdMe == <<"/", "v", "1", "/", "{", "i", "d", "}", "/", "m", "e">>
PV1Me == <<"/", "v", "1", "/", "m", "e">>
ScorePaths == {PV1UsersCap, PV1UsersId, PV1IdMe, PV1Me, PV1Orders}

\* Documents that write an endpoint without its leading slash, and with its
\* parameter left out.
TextMe == <<"g", "e", "t", "(", "'", "v", "1", "/", "m", "e", "'", ")">>
TextIdMe == <<"'", "/", "V", "1", "/", "/", "m", "e", "'">>
ScoreOutcomes == ReadOutcomes \cup {ReadOk(TextMe), ReadOk(TextIdMe)}

\* Change lists of one or two changes with these paths.
ScoreDiffs ==
    {[file |-> SpecFile, changes |-> <<[type |-> "new_endpoint", path |-> p]>>] :
        p \in ScorePaths}
    \cup {[file |-> SpecFile,
           changes |-> <<[type |-> "removed_endpoint", path |-> c[1]],
                         [type |-> "new_endpoint", path |-> c[2]]>>] :
            c \in {x \in ScorePaths \X ScorePaths : x[1] # x[2]}}

InitScore ==
    /\ DiffIdle
    /\ \E files \in SeqsNoDup({FApi, FUsers}, MaxScored), pad \in {0, 1}, d \in ScoreDiffs :
           \E read \in [Range(files) -> ScoreOutcomes] : RankCalled(files, pad, read, d)
    /\ RunStarted
    /\ RestIdle

SpecScore == InitScore /\ [][NextRank]_vars

-----------------------------------------------------------------------------
(* readTestFiles (suggest-updates.js:287-361). The content of a file is    *)
(* kept as its lines, and a line as what the function looks at: whether,   *)
(* trimmed, it starts with 'import ', 'const ' or 'require(', and how long *)
(* it is.                                                                  *)

maxTokensPerFile == 1000
maxTotalTokens == 8000

\* The most files readTestFiles is given.
MaxRead == 3

Line(declaration, length) == [declaration |-> declaration, length |-> length]

RECURSIVE SumLengths(_)
SumLengths(lines) ==
    IF lines = <<>> THEN 0 ELSE Head(lines).length + SumLengths(Tail(lines))

\* lines.join('\n').length, which for the lines of a file is content.length
JoinedLength(lines) == IF lines = <<>> THEN 0 ELSE SumLengths(lines) + Len(lines) - 1

\* Array.prototype.slice(0, end): an end below 0 counts from the end of the
\* array.
SliceTo(a, end) ==
    SubSeq(a, 1, IF end < 0 THEN Max(Len(a) + end, 0) ELSE Min(end, Len(a)))

\* lines.filter(line => line.trim().startsWith('import ') || ...).slice(0, 10)
importLines(lines) == SliceTo(SelectSeq(lines, LAMBDA l : l.declaration), 10)

\* lines.filter(line => !line.trim().startsWith('import ') && ...)
codeLines(lines) == SelectSeq(lines, LAMBDA l : ~l.declaration)

\* Math.floor((maxTokensPerFile - importLines.join('\n').length) / 50)
maxCodeLines(lines) == (maxTokensPerFile - JoinedLength(importLines(lines))) \div 50

\* codeLines.slice(0, maxCodeLines)
selectedCode(lines) == SliceTo(codeLines(lines), maxCodeLines(lines))

\* '\n\n// ...(truncated)'.length
MarkerLength == 19

\* truncatedContent (lines 316-340): the lines it is made of and its length.
truncatedContent(lines) ==
    IF JoinedLength(lines) > maxTokensPerFile
    THEN [truncated |-> TRUE,
          declarations |-> importLines(lines),
          code |-> selectedCode(lines),
          length |-> JoinedLength(importLines(lines)) + 2
                     + JoinedLength(selectedCode(lines)) + MarkerLength]
    ELSE [truncated |-> FALSE,
          declarations |-> SelectSeq(lines, LAMBDA l : l.declaration),
          code |-> codeLines(lines),
          length |-> JoinedLength(lines)]

\* Math.ceil(length / 3.5)
estimatedTokens(length) == (2 * length + 6) \div 7

DocOk(lines) == [ok |-> TRUE, lines |-> lines]
DocFails == [ok |-> FALSE, lines |-> <<>>]

\* fs.statSync(file).size; it throws for a file that cannot be read.
statSyncDoc(file) ==
    IF docs[file].ok THEN [ok |-> TRUE, size |-> JoinedLength(docs[file].lines)]
    ELSE [ok |-> FALSE, size |-> 0]

\* The comparator of lines 293-301.
CompareDocSize(a, b) ==
    IF statSyncDoc(a).ok /\ statSyncDoc(b).ok
    THEN statSyncDoc(a).size - statSyncDoc(b).size
    ELSE 0

\* The place of a file in an array without duplicates.
IndexIn(files, f) == CHOOSE i \in 1..Len(files) : files[i] = f

\* What testFiles.sort(comparator) may leave in the array: the stable order
\* by size when the comparator is consistent, and otherwise some permutation.
DocSortOutcomes(files) ==
    LET orders == {[i \in 1..Len(files) |-> files[q[i]]] : q \in Permutations(1..Len(files))}
        consistent == \A a, b, c \in Range(files) :
                          CompareDocSize(a, b) = 0 /\ CompareDocSize(b, c) = 0
                              => CompareDocSize(a, c) = 0
    IN  IF consistent
        THEN {o \in orders :
                 \A i, j \in 1..Len(o) :
                     i < j => \/ CompareDocSize(o[i], o[j]) < 0
                              \/ /\ CompareDocSize(o[i], o[j]) = 0
                                 /\ IndexIn(files, o[i]) < IndexIn(files, o[j])}
        ELSE orders

\* Files of 3 short lines; of 30 lines; of 12 declarations and 25 lines; of
\* one declaration of 1100 characters and 3 lines; of one declaration of
\* 30000 characters and 3 lines.
Repeat(line, n) == [i \in 1..n |-> line]
DocShort == Repeat(Line(FALSE, 40), 3)
DocCode == Repeat(Line(FALSE, 40), 30)
DocImports == Repeat(Line(TRUE, 30), 12) \o Repeat(Line(FALSE, 40), 25)
DocLongConst == <<Line(TRUE, 1100)>> \o Repeat(Line(FALSE, 40), 3)
DocHugeConst == <<Line(TRUE, 30000)>> \o Repeat(Line(FALSE, 40), 3)
DocOutcomes ==
    {DocFails} \cup {DocOk(d) : d \in {DocShort, DocCode, DocImports, DocLongConst, DocHugeConst}}

ReadFiles == {"t/auth.test.js", "t/users.test.js", "t/orders.test.js"}

\* The numbers of matched endpoints of ranked files: 1 or more each, and
\* none larger than the one before it.
MatchCounts(files) ==
    {c \in [Range(files) -> 1..2] :
        \A i, j \in 1..Len(files) : i < j => c[files[i]] >= c[files[j]]}

\* readTestFiles has been called with the files findRelevantTestFiles ranked.
InitRead ==
    /\ DiffIdle
    /\ RankIdle
    /\ RunIdle
    /\ TailIdle
    /\ \E files \in SeqsNoDup(ReadFiles, MaxRead) :
           /\ testFiles = files
           /\ docs \in [Range(files) -> DocOutcomes]
           /\ matchCount \in MatchCounts(files)
    /\ fileContents = <<>>
    /\ totalTokens = 0
    /\ readIdx = 0
    /\ readPc = "sort"
    /\ DetIdle
    /\ SugIdle

\* const sortedFiles = testFiles.sort(...)
SortBySize ==
    /\ readPc = "sort"
    /\ testFiles' \in DocSortOutcomes(testFiles)
    /\ readIdx' = 1
    /\ readPc' = "loop"
    /\ UNCHANGED <<docs, matchCount, fileContents, totalTokens>>
    /\ UNCHANGED <<diffVars, rankVars, runVars, detVars, sugVars, tailVars>>

\* One turn of `for (const filePath of sortedFiles)` below the limit: the
\* file is read, truncated and pushed, or the read throws and is warned of.
RenderFile ==
    /\ readPc = "loop"
    /\ readIdx <= Len(testFiles)
    /\ totalTokens < maxTotalTokens
    /\ LET filePath == testFiles[readIdx]
           content == docs[filePath]
           rendered == truncatedContent(content.lines)
       IN  IF content.ok
           THEN /\ totalTokens' = totalTokens + estimatedTokens(rendered.length)
                /\ fileContents' = Append(fileContents, [file |-> filePath] @@ rendered)
           ELSE UNCHANGED <<totalTokens, fileContents>>
    /\ readIdx' = readIdx + 1
    /\ UNCHANGED <<testFiles, docs, matchCount, readPc>>
    /\ UNCHANGED <<diffVars, rankVars, runVars, detVars, sugVars, tailVars>>

\* The break at the limit, or the end of the loop; then the return.
ReturnContents ==
    /\ readPc = "loop"
    /\ readIdx > Len(testFiles) \/ totalTokens >= maxTotalTokens
    /\ readPc' = "done"
    /\ UNCHANGED <<testFiles, docs, matchCount, fileContents, totalTokens, readIdx>>
    /\ UNCHANGED <<diffVars, rankVars, runVars, detVars, sugVars, tailVars>>

NextRead == SortBySize \/ RenderFile \/ ReturnContents

SpecRead == InitRead /\ [][NextRead]_vars

-----------------------------------------------------------------------------
(* run, the detector (src/unnamed/part_002).                               *)

\* The most files run is given.
MaxChanged == 2

\* What getFileAtRevision and getCurrentFileContent may do: return the text
\* of the file, which may be the empty string, return null, or throw.
Retrieved(text) == [kind |-> "text", empty |-> FALSE, text |-> text]
RetrievedEmpty == [kind |-> "text", empty |-> TRUE, text |-> Yaml(Undefined)]
RetrievedNull == [kind |-> "null", empty |-> FALSE, text |-> Garbage]
RetrieveThrows == [kind |-> "throws", empty |-> FALSE, text |-> Garbage]

\* !oldSpec
Falsy(retrieved) == retrieved.kind = "null" \/ retrieved.empty

\* Mutant of Significant: an entry is pushed for every file that was compared.
SignificantAlways(apiChanges) == TRUE

\* apiChanges.length > 0
Significant(apiChanges) == Len(apiChanges) > 0

\* A spec of one operation, as JSON and changed as YAML; a text that does
\* not parse.
DocPlain == Json(OneOp(OpPlain))
DocAlt == Yaml(OneOp(OpAlt))
Retrievals ==
    {Retrieved(DocPlain), Retrieved(DocAlt), Retrieved(Garbage),
     RetrievedEmpty, RetrievedNull, RetrieveThrows}

SpecFiles == {"api/users.json", "api/orders.yaml"}

InitDetect ==
    /\ DiffIdle
    /\ RankIdle
    /\ RunIdle
    /\ TailIdle
    /\ ReadIdle
    /\ \E files \in SeqsNoDup(SpecFiles, MaxChanged) :
           /\ changedFiles = files
           /\ revisions \in [Range(files) -> [old : Retrievals, new : Retrievals]]
    /\ diffs = <<>>
    /\ processed = <<>>
    /\ detPc = "loop"
    /\ SugIdle

\* One turn of the loop up to the call of diffOpenAPISpecs: the two versions
\* are retrieved; a throw is caught and logged, a version that is missing or
\* empty is warned of, and the loop goes on with the next file.
RetrieveFile ==
    /\ detPc = "loop"
    /\ Len(processed) < Len(changedFiles)
    /\ LET file == changedFiles[Len(processed) + 1]
           oldSpecR == revisions[file].old
           newSpecR == revisions[file].new
       IN  IF oldSpecR.kind = "throws" \/ newSpecR.kind = "throws"
           THEN /\ processed' = Append(processed, "error")
                /\ UNCHANGED <<detPc, diffVars>>
           ELSE IF Falsy(oldSpecR) \/ Falsy(newSpecR)
           THEN /\ processed' = Append(processed, "skipping")
                /\ UNCHANGED <<detPc, diffVars>>
           ELSE /\ oldSpecStr' = oldSpecR.text
                /\ newSpecStr' = newSpecR.text
                /\ oldSpec' = Undefined
                /\ newSpec' = Undefined
                /\ changes' = <<>>
                /\ idx' = 0
                /\ threw' = FALSE
                /\ ret' = <<>>
                /\ pc' = "parseOld"
                /\ detPc' = "diff"
                /\ UNCHANGED processed
    /\ UNCHANGED <<changedFiles, revisions, diffs>>
    /\ UNCHANGED <<rankVars, runVars, readVars, sugVars, tailVars>>

\* The rest of the turn, once diffOpenAPISpecs has returned.
PushChanges ==
    /\ detPc = "diff"
    /\ pc = "done"
    /\ LET file == changedFiles[Len(processed) + 1]
           apiChanges == ret
       IN  IF Significant(apiChanges)
           THEN /\ diffs' = Append(diffs, [file |-> file, changes |-> apiChanges])
                /\ processed' = Append(processed, "found")
           ELSE /\ diffs' = diffs
                /\ processed' = Append(processed, "none")
    /\ detPc' = "loop"
    /\ UNCHANGED <<changedFiles, revisions>>
    /\ UNCHANGED <<diffVars, rankVars, runVars, readVars, sugVars, tailVars>>

\* return diffs
ReturnDiffs ==
    /\ detPc = "loop"
    /\ Len(processed) = Len(changedFiles)
    /\ detPc' = "done"
    /\ UNCHANGED <<changedFiles, revisions, diffs, processed>>
    /\ UNCHANGED <<diffVars, rankVars, runVars, readVars, sugVars, tailVars>>

DiffSteps == ParseOld \/ ParseNew \/ Forward \/ Backward \/ Catch

NextDetect == RetrieveFile \/ DiffSteps \/ PushChanges \/ ReturnDiffs

SpecDetect == InitDetect /\ [][NextDetect]_vars

-----------------------------------------------------------------------------
(* suggestUpdates (suggest-updates.js:6-103). findRelevantTestFiles and    *)
(* readTestFiles, modelled above, catch what they meet and return; here     *)
(* their call is the one step that builds the prompt.                      *)

\* The most diffs suggestUpdates is given.
MaxDiffs == 3

\* What `await client.chat.completions.create(...)` followed by
\* parseAIResponse may do: give the blocks of test code of a response, or
\* throw, in the call or in the parse.
Generated(content, tests) == [ok |-> TRUE, content |-> content, tests |-> tests]
GenerationFails(message) == [ok |-> FALSE, content |-> message, tests |-> <<>>]
Generations ==
    {Generated("// File: test/users.test.js", <<"test/users.test.js">>),
     Generated("Sorry.", <<>>),
     GenerationFails("429 Rate limit reached")}

\* Mutant of Failure: the catch logs and pushes nothing.
FailureSkipped(acc, d, outcome) == acc

\* The push of the catch (lines 92-98).
Failure(acc, d, outcome) ==
    Append(acc, [file |-> d.file, changes |-> d.changes,
                 aiOutput |-> <<"Error generating test code: ", outcome.content>>,
                 testFilesAnalyzed |-> 0, generatedTests |-> <<>>])

\* The push of the try (lines 84-90).
Success(acc, d, outcome, testFilesLength) ==
    Append(acc, [file |-> d.file, changes |-> d.changes,
                 aiOutput |-> <<outcome.content>>,
                 testFilesAnalyzed |-> testFilesLength, generatedTests |-> outcome.tests])

\* Diffs as run returns them, for two spec files.
SuggestDiffs ==
    {[file |-> "api/users.json",
      changes |-> <<[type |-> "new_endpoint", path |-> PV1Users]>>],
     [file |-> "api/orders.yaml",
      changes |-> <<[type |-> "removed_endpoint", path |-> PV1Orders]>>]}

Listings == {[ok |-> TRUE, files |-> 0], [ok |-> TRUE, files |-> 60], [ok |-> FALSE, files |-> 0]}

InitSuggest ==
    /\ DiffIdle
    /\ RankIdle
    /\ RunIdle
    /\ TailIdle
    /\ ReadIdle
    /\ DetIdle
    /\ \E n \in 0..MaxDiffs :
           /\ apiDiffs \in [1..n -> SuggestDiffs]
           /\ generation \in [1..n -> Generations]
    /\ listing \in Listings
    /\ suggestions = <<>>
    /\ sugIdx = 1
    /\ prompted = FALSE
    /\ sugPc = "list"

\* const testFiles = getTestFilesFromRepo(testRepoPath, testCodePaths): a
\* throw leaves suggestUpdates.
ListTestFiles ==
    /\ sugPc = "list"
    /\ sugPc' = IF listing.ok THEN "loop" ELSE "threw"
    /\ UNCHANGED <<apiDiffs, listing, generation, suggestions, sugIdx, prompted>>
    /\ UNCHANGED <<diffVars, rankVars, runVars, readVars, detVars, tailVars>>

\* A turn of the loop up to the prompt: the relevant test files are found and
\* read.
BuildPrompt ==
    /\ sugPc = "loop"
    /\ sugIdx <= Len(apiDiffs)
    /\ ~prompted
    /\ prompted' = TRUE
    /\ UNCHANGED <<apiDiffs, listing, generation, suggestions, sugIdx, sugPc>>
    /\ UNCHANGED <<diffVars, rankVars, runVars, readVars, detVars, tailVars>>

\* The rest of the turn: the try and its catch.
Generate ==
    /\ sugPc = "loop"
    /\ prompted
    /\ LET outcome == generation[sugIdx]
       IN  suggestions' = IF outcome.ok
                          THEN Success(suggestions, apiDiffs[sugIdx], outcome, listing.files)
                          ELSE Failure(suggestions, apiDiffs[sugIdx], outcome)
    /\ sugIdx' = sugIdx + 1
    /\ prompted' = FALSE
    /\ UNCHANGED <<apiDiffs, listing, generation, sugPc>>
    /\ UNCHANGED <<diffVars, rankVars, runVars, readVars, detVars, tailVars>>

\* return suggestions
ReturnSuggestions ==
    /\ sugPc = "loop"
    /\ sugIdx > Len(apiDiffs)
    /\ sugPc' = "done"
    /\ UNCHANGED <<apiDiffs, listing, generation, suggestions, sugIdx, prompted>>
    /\ UNCHANGED <<diffVars, rankVars, runVars, readVars, detVars, tailVars>>

NextSuggest == ListTestFiles \/ BuildPrompt \/ Generate \/ ReturnSuggestions

SpecSuggest == InitSuggest /\ [][NextSuggest]_vars

-----------------------------------------------------------------------------
(* createDraftPR (create-draft-pr.js:7-135): the steps of its try block,   *)
(* each of which either completes or throws, and its two cleanups.  A      *)
(* command run with execSync throws when the command fails.                *)

MaxSuggestions == 2
MaxTests == 2

\* The entry of modifiedFiles for AI_TEST_SUGGESTIONS.md (line 70).
SummaryOnlyFile == [s |-> 0, t |-> 0]

\* The steps other than applyTestChanges whose failure reaches the catch of
\* line 123.  setupGitConfig catches its own errors (part_001:130-137).
OuterSteps ==
    {"checkout", "createSummaryFile", "writeFileSync", "add", "commit", "set-url", "push",
     "createGitHubPR"}

\* What createGitHubPR does (lines 203-339): it returns at once without a
\* token, creates the pull request, creates it and fails to label it, which
\* it only logs, or throws.
PROutcomes == {"skipped", "created", "unlabelled", "threw"}

InitPR ==
    /\ DiffIdle
    /\ RankIdle
    /\ RunIdle
    /\ ReadIdle
    /\ DetIdle
    /\ SugIdle
    /\ MainIdle
    /\ \E n \in 1..MaxSuggestions : generatedTests \in [1..n -> 0..MaxTests]
    /\ applied = <<>>
    /\ modifiedFiles = <<>>
    /\ failed = <<>>
    /\ removals = <<>>
    /\ thrown = "none"
    /\ prSug = 1
    /\ prTest = 1
    /\ prPc = "setupGitConfig"

\* A step of the try block that is not inside the inner try: when it throws,
\* control goes to the catch of line 123.
OuterStep(step, ok, next) ==
    /\ prPc' = IF ok THEN next ELSE "catch"
    /\ failed' = IF ok THEN failed ELSE Append(failed, step)

\* setupGitConfig(testRepoPath) (line 24)
SetupGitConfig ==
    /\ prPc = "setupGitConfig"
    /\ prPc' = "checkout"
    /\ UNCHANGED <<generatedTests, applied, modifiedFiles, failed, removals, thrown, prSug,
                   prTest>>
    /\ UNCHANGED <<diffVars, rankVars, runVars, readVars, detVars, sugVars, mainVars>>

\* git checkout -b (lines 28-31)
CheckoutBranch ==
    /\ prPc = "checkout"
    /\ \E ok \in BOOLEAN : OuterStep("checkout", ok, "loop")
    /\ UNCHANGED <<generatedTests, applied, modifiedFiles, removals, thrown, prSug, prTest>>
    /\ UNCHANGED <<diffVars, rankVars, runVars, readVars, detVars, sugVars, mainVars>>

\* The position of the inner loop after a turn (lines 42-57): the catch of
\* line 54 only logs, so the loop goes on to the next test file.
AfterApply(ok, t, n) == t + 1

\* One turn of the loop over suggestion.generatedTests (lines 42-57).
ApplyTestChanges ==
    /\ prPc = "loop"
    /\ prSug <= Len(generatedTests)
    /\ prTest <= generatedTests[prSug]
    /\ \E ok \in BOOLEAN :
           /\ applied' = Append(applied, [s |-> prSug, t |-> prTest, ok |-> ok])
           /\ modifiedFiles' = IF ok
                               THEN Append(modifiedFiles, [s |-> prSug, t |-> prTest])
                               ELSE modifiedFiles
           /\ failed' = IF ok THEN failed ELSE Append(failed, "applyTestChanges")
           /\ prTest' = AfterApply(ok, prTest, generatedTests[prSug])
    /\ UNCHANGED <<generatedTests, removals, thrown, prSug, prPc>>
    /\ UNCHANGED <<diffVars, rankVars, runVars, readVars, detVars, sugVars, mainVars>>

\* await createSummaryFile(suggestion, testRepoPath) (line 61), which ends
\* the turn of the loop over suggestions.
CreateSummaryFile ==
    /\ prPc = "loop"
    /\ prSug <= Len(generatedTests)
    /\ prTest > generatedTests[prSug]
    /\ \E ok \in BOOLEAN :
           /\ OuterStep("createSummaryFile", ok, "loop")
           /\ prSug' = IF ok THEN prSug + 1 ELSE prSug
           /\ prTest' = IF ok THEN 1 ELSE prTest
    /\ UNCHANGED <<generatedTests, applied, modifiedFiles, removals, thrown>>
    /\ UNCHANGED <<diffVars, rankVars, runVars, readVars, detVars, sugVars, mainVars>>

\* if (modifiedFiles.length === 0) (lines 64-71)
SummaryOnly ==
    /\ prPc = "loop"
    /\ prSug > Len(generatedTests)
    /\ modifiedFiles = <<>>
    /\ \E ok \in BOOLEAN :
           /\ OuterStep("writeFileSync", ok, "add")
           /\ modifiedFiles' = IF ok THEN <<SummaryOnlyFile>> ELSE modifiedFiles
    /\ UNCHANGED <<generatedTests, applied, removals, thrown, prSug, prTest>>
    /\ UNCHANGED <<diffVars, rankVars, runVars, readVars, detVars, sugVars, mainVars>>

\* modifiedFiles.forEach(git add) (lines 74-79)
StageFiles ==
    /\ \/ prPc = "add"
       \/ prPc = "loop" /\ prSug > Len(generatedTests) /\ modifiedFiles # <<>>
    /\ \E ok \in BOOLEAN : OuterStep("add", ok, "commit")
    /\ UNCHANGED <<generatedTests, applied, modifiedFiles, removals, thrown, prSug, prTest>>
    /\ UNCHANGED <<diffVars, rankVars, runVars, readVars, detVars, sugVars, mainVars>>

\* git commit (lines 94-97)
Commit ==
    /\ prPc = "commit"
    /\ \E ok \in BOOLEAN : OuterStep("commit", ok, "set-url")
    /\ UNCHANGED <<generatedTests, applied, modifiedFiles, removals, thrown, prSug, prTest>>
    /\ UNCHANGED <<diffVars, rankVars, runVars, readVars, detVars, sugVars, mainVars>>

\* git remote set-url (lines 101-104)
SetRemoteUrl ==
    /\ prPc = "set-url"
    /\ \E ok \in BOOLEAN : OuterStep("set-url", ok, "push")
    /\ UNCHANGED <<generatedTests, applied, modifiedFiles, removals, thrown, prSug, prTest>>
    /\ UNCHANGED <<diffVars, rankVars, runVars, readVars, detVars, sugVars, mainVars>>

\* git push (lines 106-109)
Push ==
    /\ prPc = "push"
    /\ \E ok \in BOOLEAN : OuterStep("push", ok, "createGitHubPR")
    /\ UNCHANGED <<generatedTests, applied, modifiedFiles, removals, thrown, prSug, prTest>>
    /\ UNCHANGED <<diffVars, rankVars, runVars, readVars, detVars, sugVars, mainVars>>

\* await createGitHubPR(...) (line 113)
CreateGitHubPR ==
    /\ prPc = "createGitHubPR"
    /\ \E outcome \in PROutcomes : OuterStep("createGitHubPR", outcome # "threw", "cleanup")
    /\ UNCHANGED <<generatedTests, applied, modifiedFiles, removals, thrown, prSug, prTest>>
    /\ UNCHANGED <<diffVars, rankVars, runVars, readVars, detVars, sugVars, mainVars>>

\* The cleanup of the try block (lines 116-121): a failure of fs.rmSync is
\* only logged, and createDraftPR returns.
Cleanup ==
    /\ prPc = "cleanup"
    /\ \E ok \in BOOLEAN : removals' = Append(removals, ok)
    /\ prPc' = "done"
    /\ UNCHANGED <<generatedTests, applied, modifiedFiles, failed, thrown, prSug, prTest>>
    /\ UNCHANGED <<diffVars, rankVars, runVars, readVars, detVars, sugVars, mainVars>>

\* Mutant of CleanupOnError: the catch rethrows without touching the clone.
CleanupOnErrorSkipped(log, ok) == log

\* The cleanup of the catch (lines 127-131).
CleanupOnError(log, ok) == Append(log, ok)

\* throw error (line 133)
Rethrown(error) == error

\* catch (error) (lines 123-134)
CatchAndRethrow ==
    /\ prPc = "catch"
    /\ \E ok \in BOOLEAN : removals' = CleanupOnError(removals, ok)
    /\ thrown' = Rethrown(failed[Len(failed)])
    /\ prPc' = "done"
    /\ UNCHANGED <<generatedTests, applied, modifiedFiles, failed, prSug, prTest>>
    /\ UNCHANGED <<diffVars, rankVars, runVars, readVars, detVars, sugVars, mainVars>>

NextPR ==
    \/ SetupGitConfig
    \/ CheckoutBranch
    \/ ApplyTestChanges
    \/ CreateSummaryFile
    \/ SummaryOnly
    \/ StageFiles
    \/ Commit
    \/ SetRemoteUrl
    \/ Push
    \/ CreateGitHubPR
    \/ Cleanup
    \/ CatchAndRethrow

SpecPR == InitPR /\ [][NextPR]_vars

-----------------------------------------------------------------------------
(* The entry point (part_001:200-275): the stages of one run, each awaited *)
(* call being one step that returns or throws, and process.exit ending the *)
(* run at the statement that calls it.                                     *)

\* The stages, in the order the entry point names them.
StageOrder == <<"validate", "detect", "run", "clone", "suggest", "createPR">>

RequiredEnv == {"OPENAI_API_KEY", "TEST_REPO_PAT", "INPUT_TEST_REPO_URL"}

DefaultGlobs == {"**/openapi.yaml", "**/openapi.yml", "**/swagger.json"}

\* What loadConfig returns when the file cannot be read or parsed
\* (part_001:166-171).
DefaultConfig ==
    [json |-> "object", api_spec_paths |-> [present |-> TRUE, globs |-> DefaultGlobs],
     detector |-> "api", test_code_paths |-> TRUE]

\* What JSON.parse gives for some configuration files: complete ones, one
\* whose detector has no file, ones that lack a required key, one whose
\* api_spec_paths is the empty array, and the text null.
FileConfigs ==
    {[json |-> "object",
      api_spec_paths |-> [present |-> TRUE, globs |-> {"specs/*.json", "**/openapi.yaml"}],
      detector |-> "api", test_code_paths |-> TRUE],
     [json |-> "object", api_spec_paths |-> [present |-> TRUE, globs |-> DefaultGlobs],
      detector |-> "graphql", test_code_paths |-> TRUE],
     [json |-> "object", api_spec_paths |-> [present |-> FALSE, globs |-> {}],
      detector |-> "api", test_code_paths |-> TRUE],
     [json |-> "object", api_spec_paths |-> [present |-> TRUE, globs |-> DefaultGlobs],
      detector |-> "", test_code_paths |-> TRUE],
     [json |-> "object", api_spec_paths |-> [present |-> TRUE, globs |-> DefaultGlobs],
      detector |-> "api", test_code_paths |-> FALSE],
     [json |-> "object", api_spec_paths |-> [present |-> TRUE, globs |-> {}],
      detector |-> "api", test_code_paths |-> TRUE],
     [json |-> "null", api_spec_paths |-> [present |-> FALSE, globs |-> {}],
      detector |-> "", test_code_paths |-> FALSE]}

\* The detectors that have a file ./detectors/<name>-detector.js.
DetectorFiles == {"api"}

\* Files a commit may change.
RepoFiles == {"api/openapi.yaml", "specs/users.json", "README.md"}

\* micromatch.isMatch(file, patterns), for the patterns and files above.
Matching ==
    {<<"**/openapi.yaml", "api/openapi.yaml">>, <<"specs/*.json", "specs/users.json">>}

isMatch(file, patterns) == \E g \in patterns : <<g, file>> \in Matching

\* filter of a sequence, in order.
RECURSIVE FilterMatching(_, _)
FilterMatching(files, patterns) ==
    IF files = <<>> THEN <<>>
    ELSE (IF isMatch(Head(files), patterns) THEN <<Head(files)>> ELSE <<>>)
             \o FilterMatching(Tail(files), patterns)

\* getChangedFiles (part_001:10-18): [] when git fails.
getChangedFiles(r) == IF r.git THEN r.changed ELSE <<>>

\* detectChanges (detect-changes.js:9-31)
detectChanges(c, r) ==
    IF ~r.git THEN <<>>
    ELSE IF getChangedFiles(r) = <<>> THEN <<>>
    ELSE FilterMatching(getChangedFiles(r), c.api_spec_paths.globs)

\* validateConfig goes past its four checks (part_001:175-198).
Validated(c, e) ==
    /\ c.api_spec_paths.present
    /\ c.detector # ""
    /\ c.test_code_paths
    /\ RequiredEnv \subseteq e

InitMain ==
    /\ DiffIdle
    /\ RankIdle
    /\ RunIdle
    /\ ReadIdle
    /\ DetIdle
    /\ SugIdle
    /\ PRIdle
    /\ config \in FileConfigs \cup {DefaultConfig}
    /\ env \in SUBSET RequiredEnv
    /\ repo \in [git : BOOLEAN, changed : SeqsNoDup(RepoFiles, MaxChanged)]
    /\ ~repo.git => repo.changed = <<>>
    /\ relevant = <<>>
    /\ found = 0
    /\ suggested = 0
    /\ stages = <<>>
    /\ exitCode = -1
    /\ mainPc = "loadConfig"

\* process.exit(code)
Exit(code) ==
    /\ exitCode' = code
    /\ mainPc' = "exited"

\* Lines 204-214: setting config.test_repo throws when the file holds null.
LoadConfig ==
    /\ mainPc = "loadConfig"
    /\ mainPc' = IF config.json = "null" THEN "catch" ELSE "validate"
    /\ UNCHANGED <<config, env, repo, relevant, found, suggested, stages, exitCode>>
    /\ UNCHANGED <<diffVars, rankVars, runVars, readVars, detVars, sugVars, prVars>>

\* validateConfig(config) (line 216)
ValidateConfig ==
    /\ mainPc = "validate"
    /\ stages' = Append(stages, "validate")
    /\ IF Validated(config, env)
       THEN mainPc' = "detect" /\ UNCHANGED exitCode
       ELSE Exit(1)
    /\ UNCHANGED <<config, env, repo, relevant, found, suggested>>
    /\ UNCHANGED <<diffVars, rankVars, runVars, readVars, detVars, sugVars, prVars>>

\* Lines 221-226
DetectChanges ==
    /\ mainPc = "detect"
    /\ stages' = Append(stages, "detect")
    /\ relevant' = detectChanges(config, repo)
    /\ IF Len(relevant') = 0
       THEN Exit(0)
       ELSE mainPc' = "loadDetector" /\ UNCHANGED exitCode
    /\ UNCHANGED <<config, env, repo, found, suggested>>
    /\ UNCHANGED <<diffVars, rankVars, runVars, readVars, detVars, sugVars, prVars>>

\* Lines 229-235
LoadDetector ==
    /\ mainPc = "loadDetector"
    /\ IF config.detector \in DetectorFiles
       THEN mainPc' = "run" /\ UNCHANGED exitCode
       ELSE Exit(1)
    /\ UNCHANGED <<config, env, repo, relevant, found, suggested, stages>>
    /\ UNCHANGED <<diffVars, rankVars, runVars, readVars, detVars, sugVars, prVars>>

\* Mutant of NoDiffs: the entry point goes on with an empty list of diffs.
NoDiffsIgnored(length) == FALSE

\* diffs.length === 0 (line 240)
NoDiffs(length) == length = 0

\* Lines 238-243: run returns at most one diff for each file it is given, or
\* throws.
RunDetector ==
    /\ mainPc = "run"
    /\ stages' = Append(stages, "run")
    /\ \/ /\ \E n \in 0..Len(relevant) : found' = n
          /\ IF NoDiffs(found')
             THEN Exit(0)
             ELSE mainPc' = "clone" /\ UNCHANGED exitCode
       \/ /\ mainPc' = "catch"
          /\ UNCHANGED <<found, exitCode>>
    /\ UNCHANGED <<config, env, repo, relevant, suggested>>
    /\ UNCHANGED <<diffVars, rankVars, runVars, readVars, detVars, sugVars, prVars>>

\* const testRepoPath = await cloneTestRepo(config.test_repo) (line 249)
CloneTestRepo ==
    /\ mainPc = "clone"
    /\ stages' = Append(stages, "clone")
    /\ \E ok \in BOOLEAN : mainPc' = IF ok THEN "suggest" ELSE "catch"
    /\ UNCHANGED <<config, env, repo, relevant, found, suggested, exitCode>>
    /\ UNCHANGED <<diffVars, rankVars, runVars, readVars, detVars, sugVars, prVars>>

\* Lines 253-258: suggestUpdates returns one suggestion for each diff, or
\* throws.
SuggestUpdates ==
    /\ mainPc = "suggest"
    /\ stages' = Append(stages, "suggest")
    /\ \/ /\ suggested' = found
          /\ IF suggested' = 0
             THEN Exit(0)
             ELSE mainPc' = "createPR" /\ UNCHANGED exitCode
       \/ /\ mainPc' = "catch"
          /\ UNCHANGED <<suggested, exitCode>>
    /\ UNCHANGED <<config, env, repo, relevant, found>>
    /\ UNCHANGED <<diffVars, rankVars, runVars, readVars, detVars, sugVars, prVars>>

\* await createDraftPR(suggestions, config, testRepoPath) (lines 264-267)
CreateDraftPR ==
    /\ mainPc = "createPR"
    /\ stages' = Append(stages, "createPR")
    /\ \E ok \in BOOLEAN : mainPc' = IF ok THEN "completed" ELSE "catch"
    /\ UNCHANGED <<config, env, repo, relevant, found, suggested, exitCode>>
    /\ UNCHANGED <<diffVars, rankVars, runVars, readVars, detVars, sugVars, prVars>>

\* catch (error) (lines 268-274)
CatchError ==
    /\ mainPc = "catch"
    /\ Exit(1)
    /\ UNCHANGED <<config, env, repo, relevant, found, suggested, stages>>
    /\ UNCHANGED <<diffVars, rankVars, runVars, readVars, detVars, sugVars, prVars>>

NextMain ==
    \/ LoadConfig
    \/ ValidateConfig
    \/ DetectChanges
    \/ LoadDetector
    \/ RunDetector
    \/ CloneTestRepo
    \/ SuggestUpdates
    \/ CreateDraftPR
    \/ CatchError

SpecMain == InitMain /\ [][NextMain]_vars

-----------------------------------------------------------------------------
(* What the ranking is said to return, stated from the corpus and the      *)
(* file system alone.                                                      *)

RankDone == rankPc = "done"

\* clamp(x, lower, upper)
Clamp(x, lower, upper) == IF x < lower THEN lower ELSE IF x > upper THEN upper ELSE x

\* The budget K of a corpus of n documents.
Budget(n) == Clamp(15000 \div n, 2, 5)

\* Whether a document's text names the identifier by one of its patterns.
Names(text, identifier) ==
    \E p \in Range(Patterns(identifier)) :
        p # <<>> /\ Includes(ToLowerCase(text), ToLowerCase(p))

\* The score of a document: how many distinct identifiers its text names;
\* 0 when it cannot be read.
Score(file) ==
    LET read == readFileSync(file)
    IN  IF read.ok THEN Cardinality({e \in Range(changedEndpoints) : Names(read.text, e)})
        ELSE 0

\* The places of the corpus whose document scores 1 or more. (The further
\* files are all alike, and their text names nothing.)
Scoring == {i \in 1..Len(allTestFiles) : Score(allTestFiles[i]) >= 1}

\* Document i goes before document j: a higher score, or the same score and
\* earlier in the corpus.
Before(i, j) ==
    \/ Score(allTestFiles[i]) > Score(allTestFiles[j])
    \/ Score(allTestFiles[i]) = Score(allTestFiles[j]) /\ i < j

\* The place of document i among the scoring documents in that order.
Place(i) == Cardinality({j \in Scoring : Before(j, i)}) + 1

\* The first K of the scoring documents in that order.
FirstKScoring ==
    [k \in 1..Min(Budget(CorpusLen), Cardinality(Scoring)) |->
        allTestFiles[CHOOSE i \in Scoring : Place(i) = k]]

\* C7 as claimed: for every identifier set, the empty one included, and every
\* corpus of N >= 1 documents, the result is no longer than
\* clamp(floor(15000/N), 2, 5).
C7_BudgetBoundEveryPath ==
    RankDone /\ CorpusLen >= 1 => Len(rankRet) <= Budget(CorpusLen)

\* C7 as amended: with identifiers the result is no longer than
\* clamp(floor(15000/N), 2, 5), on the scored path and on the zero-score
\* fallback; without identifiers it is no longer than min(3, N).
C7_BudgetBound ==
    RankDone /\ CorpusLen >= 1 =>
        Len(rankRet) <= IF changedEndpoints = <<>> THEN Min(3, CorpusLen)
                        ELSE Budget(CorpusLen)

\* More documents score than the budget of 2 allows, and 2 are returned.
C7_Witness ==
    /\ RankDone
    /\ changedEndpoints # <<>>
    /\ CorpusLen > 5000
    /\ Budget(CorpusLen) = 2
    /\ Cardinality(Scoring) > 2
    /\ Len(rankRet) = 2

\* The zero-score fallback of a corpus of 3 documents whose budget is 5.
C7_WitnessFallback ==
    /\ RankDone
    /\ changedEndpoints # <<>>
    /\ Scoring = {}
    /\ CorpusLen = 3
    /\ Len(rankRet) = 2

\* C8: when a readable document names an identifier, the result is the first
\* K of the documents of score 1 or more, by descending score, ties in the
\* order of the corpus; no document of score 0 is returned.
C8_ScoredPath ==
    RankDone /\ Scoring # {} =>
        /\ rankRet = FirstKScoring
        /\ \A i \in DOMAIN rankRet : Score(rankRet[i]) >= 1

\* Three documents score 1, 2 and 1 and the budget is 2: the second and the
\* first are returned, the tie going to the earlier one.
C8_Witness ==
    /\ RankDone
    /\ Len(allTestFiles) = 3
    /\ Budget(CorpusLen) = 2
    /\ Score(allTestFiles[1]) = 1
    /\ Score(allTestFiles[2]) = 2
    /\ Score(allTestFiles[3]) = 1
    /\ rankRet = <<allTestFiles[2], allTestFiles[1]>>

\* Of three documents one names the identifier: it alone is returned.
C8_WitnessOneOfThree ==
    /\ RankDone
    /\ CorpusLen = 3
    /\ Cardinality(Scoring) = 1
    /\ Len(rankRet) = 1

\* The documents of the corpus whose file name has a marker, in order. (The
\* name of the further files has none.)
MarkerNamed ==
    Filter(allTestFiles, {f \in Range(allTestFiles) : IsApiTestFile(f)})

\* C9: with identifiers and no document scoring above 0, the result is the
\* first (up to 2) documents whose file name has a marker; when no name has
\* one, it is the first 2 documents of the corpus.
C9_ZeroScoreFallback ==
    RankDone /\ changedEndpoints # <<>> /\ Scoring = {} =>
        rankRet = IF MarkerNamed # <<>> THEN Slice(MarkerNamed, 0, 2)
                  ELSE CorpusSlice(2)

\* C10: a document whose read failed is in no result.
C10_UnreadableExcluded ==
    RankDone => \A i \in DOMAIN rankRet : rankRet[i] \notin warned

\* C11: when extractApiEndpoints yields no identifier, the result is the first
\* min(3, N) documents of the corpus in their order, and no document is read.
C11_EmptyIdentifierFallback ==
    RankDone /\ changedEndpoints = <<>> =>
        /\ Len(rankRet) = Min(3, CorpusLen)
        /\ \A i \in DOMAIN rankRet : rankRet[i] = CorpusAt(i)
        /\ readCalls = 0
        /\ warned = {}

\* A corpus of three documents and more, one of the three unreadable: the
\* three are returned.
C11_Witness ==
    /\ RankDone
    /\ changedEndpoints = <<>>
    /\ Len(allTestFiles) = 3
    /\ padFiles > 0
    /\ \E f \in Range(allTestFiles) : ~readFileSync(f).ok
    /\ rankRet = allTestFiles

\* C12: for a corpus of no documents the result is the empty sequence, with
\* identifiers or without; the call returns.
C12_EmptyCorpus ==
    CorpusLen = 0 =>
        /\ rankPc \in {"extract", "scan", "done"}
        /\ rankPc = "scan" => fileIdx = 1 /\ ENABLED RankAndReturn
        /\ RankDone => rankRet = <<>>

\* An empty corpus ranked for a diff that names endpoints.
C12_Witness ==
    /\ RankDone
    /\ CorpusLen = 0
    /\ changedEndpoints # <<>>
    /\ rankRet = <<>>

\* An empty corpus ranked for a diff that names none.
C12_WitnessNoIdentifier ==
    /\ RankDone
    /\ CorpusLen = 0
    /\ changedEndpoints = <<>>
    /\ rankRet = <<>>

\* C13: a later call of findRelevantTestFiles with the change list of the
\* first one returns what the first one returned; and no call, nor the sort
\* of its result by readTestFiles, changes the corpus.
C13_Determinism ==
    /\ allTestFiles = testFiles0
    /\ invocation >= 2 /\ RankDone /\ diff = firstCall.diff => rankRet = firstCall.ret

\* readTestFiles put the first result in another order, and the second call
\* for the same diff returned the first result again.
C13_Witness ==
    /\ invocation = 2
    /\ RankDone
    /\ diff = firstCall.diff
    /\ Len(rankRet) >= 2
    /\ firstCall.sorted # firstCall.ret
    /\ rankRet = firstCall.ret

-----------------------------------------------------------------------------
(* What extractApiEndpoints is said to return, stated from the change list. *)

Extracted == rankPc # "extract"

Identifiers == Range(changedEndpoints)

\* The paths the changes carry.
ChangePaths ==
    {diff.changes[i].path : i \in {j \in 1..Len(diff.changes) : "path" \in DOMAIN diff.changes[j]}}

\* /api, /v1 and /v2
GenericMarkers == {<<"/", "a", "p", "i">>, <<"/", "v", "1">>, <<"/", "v", "2">>}

Admitted(e) == Len(e) > 3 /\ e \notin GenericMarkers

Verbs ==
    {<<"g", "e", "t">>, <<"p", "o", "s", "t">>, <<"p", "u", "t">>,
     <<"d", "e", "l", "e", "t", "e">>, <<"p", "a", "t", "c", "h">>, <<"h", "e", "a", "d">>,
     <<"o", "p", "t", "i", "o", "n", "s">>}

\* p without a leading /paths.
WithoutPaths(p) ==
    IF Len(p) >= 6 /\ SubSeq(p, 1, 6) = <<"/", "p", "a", "t", "h", "s">>
    THEN SubSeq(p, 7, Len(p)) ELSE p

\* q without a last segment that is an HTTP verb.
WithoutVerb(q) ==
    LET ends == {v \in Verbs : Len(q) > Len(v) /\ SubSeq(q, Len(q) - Len(v), Len(q)) = <<"/">> \o v}
    IN  IF ends = {} THEN q ELSE SubSeq(q, 1, Len(q) - Len(CHOOSE v \in ends : TRUE) - 1)

\* The path of a change without a leading /paths and then without a trailing
\* /<verb>.
Cleaned(p) == WithoutVerb(WithoutPaths(p))

\* The segments of a path: what lies between its slashes, the empty ones left out.
SegmentsOf(p) == SelectSeq(Split(p, "/"), LAMBDA x : x # <<>>)

\* The prefix made of the first i segments.
PrefixOf(segments, i) == <<"/">> \o Join(SubSeq(segments, 1, i), <<"/">>)

\* A {param} placeholder.
IsParamSegment(seg) ==
    /\ Len(seg) >= 3
    /\ seg[1] = "{"
    /\ seg[Len(seg)] = "}"
    /\ \A k \in 2..(Len(seg) - 1) : seg[k] # "}"

HasBrace(str) == \E k \in 1..Len(str) : str[k] = "{"

RECURSIVE DropTrailingParams(_)
DropTrailingParams(parts) ==
    IF parts # <<>> /\ IsParamSegment(parts[Len(parts)])
    THEN DropTrailingParams(SubSeq(parts, 1, Len(parts) - 1))
    ELSE parts

\* p with its trailing /{param} segments removed, and nothing else.
TrailingStripped(p) == Join(DropTrailingParams(Split(p, "/")), <<"/">>)

\* C14: no identifier extractApiEndpoints returns has length <= 3, is /api,
\* /v1 or /v2, or is a single lower-case letter after a slash; and none is
\* returned twice.
C14_ExtractorExclusion ==
    Extracted =>
        \A i \in DOMAIN changedEndpoints :
            LET e == changedEndpoints[i]
            IN  /\ Len(e) > 3
                /\ e \notin GenericMarkers
                /\ ~(Len(e) = 2 /\ e[1] = "/" /\ e[2] \in Range(LowerCase))
                /\ \A j \in DOMAIN changedEndpoints : j # i => changedEndpoints[j] # e

\* The rules produced /api and something else; the something else is returned.
C14_Witness ==
    /\ Extracted
    /\ <<"/", "a", "p", "i">> \in Range(CollectEndpoints(diff.changes))
    /\ changedEndpoints # <<>>

\* The rules produced an identifier twice; it is returned once.
C14_WitnessDuplicate ==
    /\ Extracted
    /\ \E i, j \in DOMAIN CollectEndpoints(diff.changes) :
           /\ i # j
           /\ CollectEndpoints(diff.changes)[i] = CollectEndpoints(diff.changes)[j]
           /\ CollectEndpoints(diff.changes)[i] \in Identifiers

\* C18 as claimed: a path p of a change that starts with "/", is longer than
\* 3 and is no generic marker is itself an identifier, also when its first
\* segment is "paths" or its last an HTTP verb.
C18_ExactPath ==
    Extracted =>
        \A p \in ChangePaths :
            Len(p) > 3 /\ p[1] = "/" /\ p \notin GenericMarkers => p \in Identifiers

\* C18 as amended: the path of a change without a leading /paths and without a
\* trailing /<verb>, when that starts with "/", is longer than 3 and is no
\* generic marker, is an identifier.
C18_CleanedPath ==
    Extracted =>
        \A p \in ChangePaths :
            LET c == Cleaned(p)
            IN  Len(c) > 3 /\ c[1] = "/" /\ c \notin GenericMarkers => c \in Identifiers

\* /orders/delete gives the identifier /orders and not itself.
C18_Witness ==
    /\ Extracted
    /\ <<"/", "o", "r", "d", "e", "r", "s", "/", "d", "e", "l", "e", "t", "e">> \in ChangePaths
    /\ <<"/", "o", "r", "d", "e", "r", "s">> \in Identifiers
    /\ <<"/", "o", "r", "d", "e", "r", "s", "/", "d", "e", "l", "e", "t", "e">> \notin Identifiers

\* A path with "paths" after its first segment is its own identifier.
C18_WitnessUnchanged ==
    /\ Extracted
    /\ \E p \in ChangePaths :
           /\ Len(p) > 6
           /\ SubSeq(p, 1, 4) = <<"/", "a", "p", "i">>
           /\ \E k \in 2..Len(p) : MatchAt(p, <<"/", "p", "a", "t", "h", "s">>, k)
           /\ Cleaned(p) = p
           /\ p \in Identifiers

\* C19: for a change list of one change with a path, the stripped variant is
\* the path with only its trailing /{param} segments removed, an identifier
\* when it differs from the path and is longer than 1; every identifier is the
\* path, that variant, or a prefix of 2 or more segments without a parameter.
C19_TrailingParamsOnly ==
    /\ Extracted
    /\ Len(diff.changes) = 1
    /\ "details" \notin DOMAIN diff.changes[1]
    /\ Len(Cleaned(diff.changes[1].path)) > 1
    /\ Cleaned(diff.changes[1].path)[1] = "/"
    => LET c == Cleaned(diff.changes[1].path)
           t == TrailingStripped(c)
           segments == SegmentsOf(c)
       IN  /\ t # c /\ Len(t) > 1 /\ Admitted(t) => t \in Identifiers
           /\ \A e \in Identifiers :
                  \/ e = c
                  \/ e = t
                  \/ \E i \in 2..Len(segments) : e = PrefixOf(segments, i) /\ ~HasBrace(e)

\* What the prefix rule adds for a path, as the code computes it.
PrefixRule(c) ==
    LET segments == FilterBoolean(Split(c, "/"))
    IN  IF Len(segments) > 1 THEN Range(PartialPaths(segments, Len(segments))) ELSE {}

\* The prefix rule adds no prefix with a parameter and none of fewer than 2
\* segments.
PrefixRuleSound(c) ==
    \A x \in PrefixRule(c) : ~HasBrace(x) /\ Len(SegmentsOf(x)) >= 2

\* C20 as claimed: for a change with a path p of n >= 2 segments, every prefix
\* of the first i segments of p, 2 <= i <= n, without a parameter is an
\* identifier unless the exclusion filter drops it; the prefix rule adds no
\* prefix with a parameter and none of fewer than 2 segments.
C20_PrefixesOfPath ==
    Extracted =>
        \A p \in ChangePaths :
            Len(p) > 1 /\ p[1] = "/" =>
                /\ \A i \in 2..Len(SegmentsOf(p)) :
                       LET prefix == PrefixOf(SegmentsOf(p), i)
                       IN  ~HasBrace(prefix) /\ Admitted(prefix) => prefix \in Identifiers
                /\ PrefixRuleSound(Cleaned(p))

\* C20 as amended: the same of the path without a leading /paths and without a
\* trailing /<verb>, when that starts with "/".
C20_PrefixesOfCleanedPath ==
    Extracted =>
        \A p \in ChangePaths :
            LET c == Cleaned(p)
            IN  Len(c) > 1 /\ c[1] = "/" =>
                    /\ \A i \in 2..Len(SegmentsOf(c)) :
                           LET prefix == PrefixOf(SegmentsOf(c), i)
                           IN  ~HasBrace(prefix) /\ Admitted(prefix) => prefix \in Identifiers
                    /\ PrefixRuleSound(c)

\* /api/users/orders gives the identifier /api/users, which only the prefix
\* rule makes.
C20_Witness ==
    /\ Extracted
    /\ ChangePaths = {<<"/", "a", "p", "i", "/", "u", "s", "e", "r", "s", "/",
                        "o", "r", "d", "e", "r", "s">>}
    /\ <<"/", "a", "p", "i", "/", "u", "s", "e", "r", "s">> \in Identifiers

\* /api/{id}/users has no prefix without a parameter: it is the only identifier
\* besides the stripped /api, which the filter drops.
C20_WitnessParameter ==
    /\ Extracted
    /\ ChangePaths = {<<"/", "a", "p", "i", "/", "{", "i", "d", "}", "/",
                        "u", "s", "e", "r", "s">>}
    /\ Cardinality(Identifiers) = 1

-----------------------------------------------------------------------------
(* More properties of the diff.                                            *)

DeltaTypes == {"parameter_changes", "response_changes"}
ForwardTypes == {"new_endpoint", "new_method", "parameter_changes", "response_changes"}
BackwardTypes == {"removed_endpoint", "removed_method"}

\* The operation of a path and method is in both specs.
InBoth(p, m) ==
    /\ p \in PathsOf(oldSpec) \cap PathsOf(newSpec)
    /\ m \in MethodsOf(oldSpec, p) \cap MethodsOf(newSpec, p)

\* C15: a parameter_changes or response_changes record is for a path and
\* method both specs have, its details are not empty, and there is one at
\* most of each type for a path and method; no path that is new or removed,
\* and no method that is, has such a record.
C15_DeltaRecords ==
    DoneShaped =>
        \A i \in 1..Len(ret) :
            /\ ret[i].type \in DeltaTypes =>
                  /\ InBoth(ret[i].path, ret[i].method)
                  /\ Len(ret[i].details) > 0
                  /\ \A j \in 1..Len(ret) :
                         (/\ j # i
                          /\ ret[j].type = ret[i].type
                          /\ ret[j].path = ret[i].path) => ret[j].method # ret[i].method
            /\ ret[i].type \in {"new_endpoint", "removed_endpoint"} =>
                  \A j \in 1..Len(ret) : ret[j].type \in DeltaTypes => ret[j].path # ret[i].path
            /\ ret[i].type \in {"new_method", "removed_method"} =>
                  \A j \in 1..Len(ret) :
                      ret[j].type \in DeltaTypes =>
                          ~(ret[j].path = ret[i].path /\ ret[j].method = ret[i].method)

\* GET changes its parameters and responses and POST is new: one record of
\* each of the three types.
C15_Witness ==
    /\ DoneShaped
    /\ Len(ret) = 3
    /\ {ret[i].type : i \in 1..3} = {"parameter_changes", "response_changes", "new_method"}
    /\ \E i, j \in 1..3 :
           /\ ret[i].type = "new_method"
           /\ ret[j].type = "parameter_changes"
           /\ ret[i].path = ret[j].path

\* The name and location of a parameter, and of a delta.
NameIn(param) == <<Get(param, "name"), Get(param, "in")>>
DeltaNameIn(d) == <<d.parameter, d.location>>

\* The deltas of one type among the parameter deltas of a path and method
\* that name the pair.
DeltasFor(p, m, type, pair) ==
    LET ds == DetailsOf(ret, "parameter_changes", p, m)
    IN  {i \in 1..Len(ds) : ds[i].type = type /\ DeltaNameIn(ds[i]) = pair}

\* C16: a parameter is known by its name and location together. One whose
\* pair is in the new list only is reported once as new_parameter, one whose
\* pair is in the old list only once as removed_parameter, also when the
\* other list has a parameter of the same name elsewhere; a
\* parameter_requirement_changed names a pair both lists have; a parameter
\* that is the same in both lists gives no delta.
C16_NameAndLocation ==
    DoneValid =>
        \A p \in PathNames, m \in MethodNames :
            InBoth(p, m) =>
                LET old == Range(ParamsOf(oldSpec, p, m))
                    new == Range(ParamsOf(newSpec, p, m))
                    oldPairs == {NameIn(o) : o \in old}
                    newPairs == {NameIn(q) : q \in new}
                    ds == DetailsOf(ret, "parameter_changes", p, m)
                IN  /\ \A pair \in newPairs \ oldPairs :
                           /\ Cardinality(DeltasFor(p, m, "new_parameter", pair)) = 1
                           /\ DeltasFor(p, m, "parameter_requirement_changed", pair) = {}
                    /\ \A pair \in oldPairs \ newPairs :
                           /\ Cardinality(DeltasFor(p, m, "removed_parameter", pair)) = 1
                           /\ DeltasFor(p, m, "parameter_requirement_changed", pair) = {}
                    /\ \A i \in 1..Len(ds) :
                           /\ ds[i].type = "parameter_requirement_changed" =>
                                  DeltaNameIn(ds[i]) \in oldPairs \cap newPairs
                           /\ ds[i].type = "new_parameter" => DeltaNameIn(ds[i]) \in newPairs \ oldPairs
                           /\ ds[i].type = "removed_parameter" => DeltaNameIn(ds[i]) \in oldPairs \ newPairs
                    /\ \A q \in old \cap new : \A i \in 1..Len(ds) : DeltaNameIn(ds[i]) # NameIn(q)

\* `expand` moves from the query to a header: a new_parameter for the header
\* and a removed_parameter for the query, and nothing else.
C16_Witness ==
    /\ DoneValid
    /\ InBoth(PUsers, "get")
    /\ ParamsOf(oldSpec, PUsers, "get") = <<Param("expand", "query", JSTrue)>>
    /\ ParamsOf(newSpec, PUsers, "get") = <<Param("expand", "header", JSTrue)>>
    /\ ret = <<[type |-> "parameter_changes", path |-> PUsers, method |-> "get",
               details |-> <<[type |-> "new_parameter", parameter |-> Str("expand"),
                              location |-> Str("header")],
                             [type |-> "removed_parameter", parameter |-> Str("expand"),
                              location |-> Str("query")]>>]>>

\* `expand` in the query and in a header, in both specs: no record.
C16_WitnessUnchanged ==
    /\ DoneValid
    /\ InBoth(PUsers, "get")
    /\ ParamsOf(oldSpec, PUsers, "get")
         = <<Param("expand", "query", JSTrue), Param("expand", "header", JSTrue)>>
    /\ ParamsOf(newSpec, PUsers, "get") = ParamsOf(oldSpec, PUsers, "get")
    /\ ret = <<>>

\* The place of a key among the own properties of an object, in the order
\* they were inserted.
KeyPlace(obj, k) == CHOOSE i \in 1..Len(obj.e) : obj.e[i].k = k

\* The place of a record in the order of a pass over spec: that of its path
\* among the paths, then that of its method among the methods of the path.
PathPlace(spec, r) == KeyPlace(Get(spec, "paths"), r.path)
MethodPlace(spec, r) == KeyPlace(Get(Get(spec, "paths"), r.path), r.method)

InPassOrder(spec, r1, r2) ==
    \/ PathPlace(spec, r1) < PathPlace(spec, r2)
    \/ /\ r1.path = r2.path
       /\ "method" \in DOMAIN r1
       /\ "method" \in DOMAIN r2
       /\ MethodPlace(spec, r1) <= MethodPlace(spec, r2)

\* C17: the records of the forward pass come before those of the backward
\* pass; the former are in the order of the paths of the new spec and of the
\* methods within a path, the latter in the order of the old spec; for a path
\* and method, parameter_changes comes before response_changes.
C17_OutputOrder ==
    DoneShaped =>
        \A i, j \in 1..Len(ret) :
            i < j =>
                /\ ~(ret[i].type \in BackwardTypes /\ ret[j].type \in ForwardTypes)
                /\ ret[i].type \in ForwardTypes /\ ret[j].type \in ForwardTypes =>
                       InPassOrder(newSpec, ret[i], ret[j])
                /\ ret[i].type \in BackwardTypes /\ ret[j].type \in BackwardTypes =>
                       InPassOrder(oldSpec, ret[i], ret[j])
                /\ (/\ ret[i].type \in DeltaTypes
                    /\ ret[j].type \in DeltaTypes
                    /\ ret[i].path = ret[j].path
                    /\ ret[i].method = ret[j].method) =>
                       ret[i].type = "parameter_changes" /\ ret[j].type = "response_changes"

\* The new spec lists /orders before /users and the old one has /users only:
\* new_endpoint /orders, then the two delta records of GET /users, then the
\* removed POST /users.
C17_Witness ==
    /\ DoneShaped
    /\ Len(ret) = 4
    /\ PathKeys(newSpec) = <<POrders, PUsers>>
    /\ ret[1] = [type |-> "new_endpoint", path |-> POrders]
    /\ ret[2].type = "parameter_changes"
    /\ ret[3].type = "response_changes"
    /\ ret[4] = [type |-> "removed_method", path |-> PUsers, method |-> "post"]

-----------------------------------------------------------------------------
(* The score of a document.                                                *)

\* The places of a string inside a {param}: from a "{" to the first "}" after
\* it, with a character at least between them.
InParam(str, i) ==
    \E a \in 1..i, b \in i..Len(str) :
        /\ str[a] = "{"
        /\ str[b] = "}"
        /\ b >= a + 2
        /\ \A k \in (a + 1)..(b - 1) : str[k] # "}"

\* The characters of a string at the places of keep, in their order.
Pick(str, keep) ==
    [k \in 1..Cardinality(keep) |->
        str[CHOOSE i \in keep : Cardinality({j \in keep : j < i}) = k - 1]]

\* The pattern family of an identifier: the identifier, the identifier
\* without its leading slash, the identifier with every {param} removed, the
\* identifier joined again from its segments, and each segment longer than 2
\* characters that is no placeholder.
Family(e) ==
    {e,
     IF e # <<>> /\ e[1] = "/" THEN Tail(e) ELSE e,
     Pick(e, {i \in 1..Len(e) : ~InParam(e, i)}),
     Join(SegmentsOf(e), <<"/">>)}
    \cup {seg \in Range(SegmentsOf(e)) : Len(seg) > 2 /\ seg[1] # "{"}

\* The documents the loop has read so far.
ScannedFiles == {allTestFiles[i] : i \in {j \in 1..Len(allTestFiles) : j < fileIdx}}

\* The score the sort uses (lines 151-155).
RankScore(file) == MatchCount(endpointMatches, file)

\* The identifiers of which a pattern, as it is written, occurs in the
\* lower-cased text.
MatchedAsWritten(text) ==
    {e \in Identifiers : \E p \in Family(e) : Includes(ToLowerCase(text), p)}

\* The identifiers of which a pattern, lower-cased, occurs in the lower-cased
\* text.
MatchedLowerCased(text) ==
    {e \in Identifiers : \E p \in Family(e) : Includes(ToLowerCase(text), ToLowerCase(p))}

\* C21 as claimed: the score of a document that was read is the number of
\* identifiers of which a pattern of the family occurs in the lower-cased
\* document.
C21_ScoreAsWritten ==
    rankPc \in {"scan", "done"} /\ changedEndpoints # <<>> =>
        \A f \in ScannedFiles :
            readFileSync(f).ok =>
                RankScore(f) = Cardinality(MatchedAsWritten(readFileSync(f).text))

\* C21: the score of a document that was read is the number of distinct
\* identifiers of which a pattern of the family, lower-cased, occurs in the
\* lower-cased document; an identifier that several patterns match counts
\* once, and the score is from 0 to the number of identifiers.
C21_Score ==
    rankPc \in {"scan", "done"} /\ changedEndpoints # <<>> =>
        \A f \in ScannedFiles :
            readFileSync(f).ok =>
                /\ RankScore(f) = Cardinality(MatchedLowerCased(readFileSync(f).text))
                /\ RankScore(f) >= 0
                /\ RankScore(f) <= Cardinality(Identifiers)

\* A document that names /v1/Users: several patterns of /v1/users occur in it
\* and the identifier counts once; "users" of /v1/users/{id} occurs too.
C21_Witness ==
    /\ rankPc = "done"
    /\ Identifiers = {PV1UsersId, PV1Users}
    /\ FUsers \in ScannedFiles
    /\ fsys[FUsers] = ReadOk(TextUsers)
    /\ Len(PatternHits(PV1Users, ToLowerCase(TextUsers))) > 1
    /\ RankScore(FUsers) = 2

\* A document that names one of two identifiers.
C21_WitnessOneOfTwo ==
    /\ rankPc = "done"
    /\ Identifiers = {PV1Me, PV1Orders}
    /\ FUsers \in ScannedFiles
    /\ fsys[FUsers] = ReadOk(TextMe)
    /\ RankScore(FUsers) = 1

\* A document that names /v1/{id}/me with its parameter left out only.
C21_WitnessParameter ==
    /\ rankPc = "done"
    /\ Identifiers = {PV1IdMe}
    /\ FApi \in ScannedFiles
    /\ fsys[FApi] = ReadOk(TextIdMe)
    /\ RankScore(FApi) = 1

-----------------------------------------------------------------------------
(* The context readTestFiles renders.                                      *)

\* The token estimates of the rendered documents, added up.
RECURSIVE RenderedTokens(_)
RenderedTokens(contents) ==
    IF contents = <<>> THEN 0
    ELSE estimatedTokens(Head(contents).length) + RenderedTokens(Tail(contents))

\* C22: the accumulated token estimate of the rendered documents never
\* exceeds the total token budget of 8000.
C22_TotalBudget ==
    /\ totalTokens = RenderedTokens(fileContents)
    /\ totalTokens <= 8000

\* C23: a document longer than the per-document budget of 1000 characters is
\* rendered with at most 10 declaration lines and then
\* max(0, floor((1000 - declarationCharLength) / 50)) of its other lines, or
\* all of them when there are fewer; none when the declaration lines alone
\* are longer than the budget.
C23_RemainingLines ==
    \A i \in 1..Len(fileContents) :
        LET e == fileContents[i]
            other == Cardinality({k \in 1..Len(docs[e.file].lines) :
                                     ~docs[e.file].lines[k].declaration})
            fit == (1000 - JoinedLength(e.declarations)) \div 50
        IN  e.truncated =>
                /\ Len(e.declarations) <= 10
                /\ Len(e.code) = Min(other, IF fit < 0 THEN 0 ELSE fit)

\* C24: the documents are rendered in rank order: none is rendered after a
\* document that matched fewer endpoints, and none is left out by the budget
\* while a document that matched fewer endpoints is rendered.
C24_RankOrder ==
    LET rendered == {fileContents[i].file : i \in 1..Len(fileContents)}
    IN  /\ \A i, j \in 1..Len(fileContents) :
               i < j => matchCount[fileContents[i].file] >= matchCount[fileContents[j].file]
        /\ readPc = "done" =>
               \A f \in Range(testFiles) \ rendered, g \in rendered :
                   docs[f].ok => matchCount[f] <= matchCount[g]

-----------------------------------------------------------------------------
(* What the detector returns.                                              *)

\* Both versions of a file were retrieved and differ.
Contributes(file) ==
    /\ revisions[file].old.kind = "text"
    /\ revisions[file].new.kind = "text"
    /\ diffOpenAPISpecs(revisions[file].old.text, revisions[file].new.text) # <<>>

\* The entries of the files that contribute, in the order of changedFiles.
RECURSIVE EntriesOf(_)
EntriesOf(files) ==
    IF files = <<>> THEN <<>>
    ELSE (IF Contributes(Head(files))
          THEN <<[file |-> Head(files),
                  changes |-> diffOpenAPISpecs(revisions[Head(files)].old.text,
                                               revisions[Head(files)].new.text)]>>
          ELSE <<>>) \o EntriesOf(Tail(files))

\* C25: run returns, in the order of changedFiles, one entry for exactly the
\* files of which both versions are retrieved and differ; a file that cannot
\* be read at a revision, does not parse or raises gives no entry and the
\* files after it are processed all the same; no entry has an empty list of
\* changes.
C25_PerFileIsolation ==
    /\ \A i \in 1..Len(diffs) : diffs[i].changes # <<>>
    /\ detPc = "done" =>
           /\ Len(processed) = Len(changedFiles)
           /\ diffs = EntriesOf(changedFiles)

\* The first file raises and the second one has changes: one entry, for the
\* second.
C25_Witness ==
    /\ detPc = "done"
    /\ Len(changedFiles) = 2
    /\ processed = <<"error", "found">>
    /\ Len(diffs) = 1
    /\ diffs[1].file = changedFiles[2]

\* The first file does not parse at HEAD~1 and the second one has changes.
C25_WitnessUnparsable ==
    /\ detPc = "done"
    /\ Len(changedFiles) = 2
    /\ revisions[changedFiles[1]].old = Retrieved(Garbage)
    /\ revisions[changedFiles[1]].new = Retrieved(DocAlt)
    /\ processed = <<"none", "found">>

-----------------------------------------------------------------------------
(* What suggestUpdates returns.                                            *)

\* C26: when suggestUpdates returns, there is one suggestion for each diff
\* it was given, in their order; the suggestion of a diff whose generation
\* failed has no generated tests and 0 test files analysed, and the
\* suggestions of the other diffs are what they are when nothing fails.
C26_OneSuggestionPerDiff ==
    /\ sugPc = "loop" => Len(suggestions) = sugIdx - 1
    /\ \A i \in 1..Min(Len(suggestions), Len(apiDiffs)) :
           /\ suggestions[i].file = apiDiffs[i].file
           /\ suggestions[i].changes = apiDiffs[i].changes
           /\ ~generation[i].ok =>
                  /\ suggestions[i].generatedTests = <<>>
                  /\ suggestions[i].testFilesAnalyzed = 0
           /\ generation[i].ok =>
                  /\ suggestions[i].generatedTests = generation[i].tests
                  /\ suggestions[i].testFilesAnalyzed = listing.files
    /\ sugPc = "done" => Len(suggestions) = Len(apiDiffs)

\* The generation fails for the first of three diffs and not for the others.
C26_Witness ==
    /\ sugPc = "done"
    /\ Len(apiDiffs) = 3
    /\ ~generation[1].ok /\ generation[2].ok /\ generation[3].ok
    /\ suggestions[1].generatedTests = <<>>
    /\ suggestions[2].generatedTests # <<>>
    /\ Len(suggestions) = 3

-----------------------------------------------------------------------------
(* What createDraftPR does with the clone and with the errors of its       *)
(* steps.                                                                  *)

\* The generated tests the two loops have gone past.
Passed ==
    {st \in (1..Len(generatedTests)) \X (1..MaxTests + 1) :
        /\ st[2] <= generatedTests[st[1]]
        /\ \/ st[1] < prSug
           \/ st[1] = prSug /\ st[2] < prTest}

\* The steps outside the inner try that have thrown.
OuterFailures == {k \in 1..Len(failed) : failed[k] \in OuterSteps}

\* C27: createDraftPR removes the clone, or tries to, exactly when it is
\* about to return or rethrow; the error of a step other than
\* applyTestChanges is rethrown after that attempt, and nothing is rethrown
\* otherwise; applyTestChanges is called for every generated test the loops
\* have gone past, whether or not it threw for an earlier one.
C27_CleanupAlways ==
    /\ prPc = "done" => Len(removals) = 1
    /\ prPc \notin {"done", "idle"} => removals = <<>> /\ thrown = "none"
    /\ prPc = "done" /\ OuterFailures # {} =>
           /\ thrown = failed[Len(failed)]
           /\ thrown \in OuterSteps
    /\ prPc = "done" /\ OuterFailures = {} =>
           /\ thrown = "none"
           /\ prSug = Len(generatedTests) + 1
    /\ \A st \in Passed : \E k \in 1..Len(applied) : applied[k].s = st[1] /\ applied[k].t = st[2]
    /\ Len(applied) = Cardinality(Passed)

\* The push fails after one of two test files could not be applied: the
\* second file was applied all the same, the removal of the clone was tried
\* and the error of the push was thrown.
C27_Witness ==
    /\ prPc = "done"
    /\ generatedTests = <<2>>
    /\ applied = <<[s |-> 1, t |-> 1, ok |-> FALSE], [s |-> 1, t |-> 2, ok |-> TRUE]>>
    /\ thrown = "push"
    /\ Len(removals) = 1

\* Every step succeeds and the removal of the clone fails: createDraftPR
\* returns.
C27_WitnessReturns ==
    /\ prPc = "done"
    /\ failed = <<>>
    /\ removals = <<FALSE>>
    /\ thrown = "none"
    /\ Len(applied) > 0

-----------------------------------------------------------------------------
(* The order of the stages of a run, and what a run needs to get past the  *)
(* detector.                                                               *)

\* The stage has been entered.
Entered(stage) == \E k \in 1..Len(stages) : stages[k] = stage

\* A file git reports as changed matches api_spec_paths.
SomeFileMatches ==
    \E k \in 1..Len(repo.changed) : isMatch(repo.changed[k], config.api_spec_paths.globs)

\* The run has ended.
Ended == mainPc \in {"exited", "completed"}

C28_WitnessNoDiffs ==
    /\ mainPc = "exited"
    /\ exitCode = 0
    /\ SomeFileMatches
    /\ found = 0
    /\ stages = <<"validate", "detect", "run">>

====
